---- MODULE Spec2Model ----
(***************************************************************************)
(* devmind: executor, journal and rollback engine.                         *)
(*                                                                         *)
(* The filesystem is a map from file paths to the bytes stored there (a     *)
(* string), plus the set of existing directories.  The journal file is the list of  *)
(* its complete lines plus the unterminated line at its end, if there is   *)
(* one (what a writer stopped in the middle of a row leaves behind).       *)
(* execute_plans and rollback_from_journal are loops; each has a position  *)
(* (pc, and the loop index) and one action per loop iteration.             *)
(*                                                                         *)
(* The planner (build_plans, resolve_target_path), the rule classifier     *)
(* (score_document), the clusterer (cluster_documents), the scanner (scan) *)
(* and two execute_plans invocations that share one journal have their own *)
(* variables and their own specifications (SpecPlan, SpecRules,            *)
(* SpecCluster, SpecScan, SpecConcurrent).  So have the tools: the task    *)
(* reflector (SpecReflect), TaskExecutor (SpecPriority), ParallelExecutor  *)
(* (SpecGroups), the watchdog's AdvancedFileHandler (SpecWatch) and        *)
(* AutoReflector (SpecAuto).  Each specification leaves the variables of   *)
(* the other parts alone.                                                  *)
(***************************************************************************)
EXTENDS Integers, Sequences, FiniteSets, TLC

\* ------------------------------------------------------------------ bounds
MaxWork == 2     \* plans handed to execute_plans, over all its invocations
MaxOps == 3      \* invocations of execute_plans and rollback_from_journal
MaxDocs == 3     \* member documents of one cluster result
MaxWeight == 1   \* largest value of a weight of the rule configuration

\* ------------------------------------------------- paths of the planner
\* Planner paths are strings put together the way pathlib joins them.
TargetRoot == "T"
Labels == {"p", "q"}

\* the retry counter of resolve_target_path has no upper limit in the code;
\* the paths of the model end at this counter value, which no call reaches
\* (a call that did would never return)
AttemptCap == MaxDocs + 2

\* directory and name of the scanned files and of every path that
\* resolve_target_path can try for them
PlanPathParts ==
    {[dir |-> d, name |-> "a.txt"] : d \in {"s1", "s2", "s3"}}
    \cup {[dir |-> TargetRoot \o "/" \o l \o "/" \o d, name |-> n] :
            l \in Labels, d \in {"docs", "archive", "tests/unit"},
            n \in {"a.txt"}
                \cup {"a__" \o h \o ".txt" : h \in {"abcdef0", ""}}
                \cup {"a__" \o h \o "_" \o ToString(k) \o ".txt" :
                        h \in {"abcdef0", ""}, k \in 1..AttemptCap}}

PlanPaths == {r.dir \o "/" \o r.name : r \in PlanPathParts}

\* ------------------------------------------------------------- filesystem
Paths == {"s/a", "s/b", "t/a"}
NoFile == "none"
\* the content of a file that open(path, "wb") has just made or truncated
Empty == ""
\* what a file can hold: the bytes of a file, or the first bytes of one
\* (the bytes of the file a run starts with at path p are the name p)
FileContents == {SubSeq(p, 1, n) : p \in Paths, n \in 0..3}
\* the first n bytes of a content
FirstBytes(content, n) == SubSeq(content, 1, n)
\* the bytes of a content behind its first n
BytesFrom(content, n) == SubSeq(content, n + 1, Len(content))
\* a zero byte, and n of them: what a write behind the end of a file
\* leaves between the end and the written bytes
Nul == "0"
RECURSIVE Zeros(_)
Zeros(n) == IF n <= 0 THEN "" ELSE Nul \o Zeros(n - 1)
\* a write of `data` at position pos of a file that holds `old`: the bytes
\* before and behind the written ones stay
WriteAt(old, pos, data) ==
    FirstBytes(old \o Zeros(pos - Len(old)), pos) \o data
        \o BytesFrom(old, pos + Len(data))

\* Path.parent
Parent(p) ==
    IF p \in Paths
    THEN IF p = "t/a" THEN "t" ELSE "s"
    ELSE (CHOOSE r \in PlanPathParts : r.dir \o "/" \o r.name = p).dir

\* os.rename(x, y) raises OSError (EXDEV) when the directories of x and y
\* lie on two filesystems; the directories "s" and "t" can
CanCrossDevice(x, y) == Parent(x) # Parent(y)

\* generate_doc_id: the id of the document scanned at a path
DocIdOf(p) == <<"doc", p>>

Modes == {"move", "copy"}

\* OrganizePlan (the fields the executor moves files by; the remaining
\* fields are copied verbatim into the journal row like doc_id is).
\* A plan relocates a file: its target differs from its source.  Nothing
\* else is assumed: targets may exist, coincide, or be another plan's source.
Plans ==
    {[doc_id |-> DocIdOf(s), source_path |-> s, target_path |-> t] :
        <<s, t>> \in {q \in Paths \X Paths : q[1] # q[2]}}

PlanLists(n) == UNION {[1..k -> Plans] : k \in 0..n}

VARIABLES
    fs,              \* path -> content of the file there, or NoFile
    dirs,            \* existing directories
    journal,         \* complete lines of the journal file
    tail,            \* <<>>, or the unterminated line the file ends in: a
                     \*   part of a row (garbled) or a row without newline
    journal_exists,  \* the journal file exists
    pc,              \* "idle" | "exec" | "rollback"
    plans, mode,     \* arguments of the current/last execute_plans call
    i,               \* execute_plans: index of the next plan
    entries,         \* execute_plans: the in-memory list `entries`
    rb,              \* rollback: reversed(entries) being replayed
    j,               \* rollback: index of the next element of rb
    origin,          \* history: path -> where the file now there was when
                     \*   the last execute_plans began (NoFile: not there)
    moved,           \* history: origins of the files shutil.move took
                     \*   during the last execute_plans
    jlen0,           \* history: Len(journal) when execute_plans began
    rb_fs0, rb_dirs0,\* history: filesystem when the last rollback began
    last, prev,      \* history: outcome of the last two finished calls
    work,            \* plans handed to execute_plans so far
    ops              \* invocations so far

\* the planner: build_plans followed by execute_plans, as `organize` runs them
VARIABLES
    disk,            \* planner path -> content of the file there, or NoFile
    cluster,         \* the ClusterResult: the list of its projects
    pmode,           \* schema.mode
    ppc,             \* "idle" | "build" | "resolve" | "exec" | "ran" | "reran"
    pidx, didx,      \* build_plans: the project and the member document at hand
    used_targets,    \* build_plans: targets allocated in the project at hand
    candidate,       \* resolve_target_path: the path under test
    attempt,         \* resolve_target_path: the retry counter
    tried,           \* history: the paths this call tested and found taken
    pplans,          \* the plans built so far; then the plans being executed
    xidx,            \* execute_plans: index of the next plan
    rerun,           \* TRUE: this is the second run over the same inputs
    disk_run1        \* history: the files when the first run was over

plan_vars == <<disk, cluster, pmode, ppc, pidx, didx, used_targets, candidate,
               attempt, tried, pplans, xidx, rerun, disk_run1>>

\* the classifier: score_document under a rule configuration
VARIABLES
    rpc,             \* "idle" | "loaded" | "scored"
    rule_config,     \* the RuleConfig: buckets in file order, and weights
    rdoc,            \* the document scored last
    scored,          \* the ScoredDocument returned for it
    totals,          \* history: the score of every bucket for it
    prev_scored,     \* history: `scored` and `totals` before the last
    prev_totals,     \*   raise of a weight
    raised           \* history: the last step raised a weight and re-scored

rules_vars == <<rpc, rule_config, rdoc, scored, totals, prev_scored,
                prev_totals, raised>>

\* the clusterer: cluster_documents over a list of documents, and again over
\* a reordering of the same list
VARIABLES
    cpc,             \* "idle" | "clustered" | "reclustered"
    cinput,          \* the arguments: documents, hints (score_map is fixed)
    cresult,         \* the ClusterResult returned for them
    cinput2,         \* the arguments of the second call
    cresult2         \* the ClusterResult of the second call

cluster_vars == <<cpc, cinput, cresult, cinput2, cresult2>>

\* the scanner: scan over a directory tree that changes before, between and
\* during the scans
VARIABLES
    sfs,             \* scanned path -> the file there (content, access)
    store,           \* the rows of the table `documents` of the store
    scan_pc,         \* "idle" | "submit" | "collect" | "export"
    scan_run,        \* the scan under way: config, directory order, next
                     \*   root, and the tree and change count at its entry
    scan_futures,    \* its futures: path, position in _scan_file, locals
    scan_out,        \* the last scan: its config, raised or the documents
    export,          \* the list written to config.output_path
    seen,            \* history: every Document a scan has returned
    scans, changes   \* scans and changes of the tree so far

scan_vars == <<sfs, store, scan_pc, scan_run, scan_futures, scan_out, export,
               seen, scans, changes>>

\* two invocations of execute_plans that run at the same time on one
\* filesystem and one journal file
VARIABLES
    shared_fs,       \* path -> content of the file there, or NoFile
    shared_dirs,     \* existing directories
    shared_journal,  \* complete lines of the journal file
    invocation,      \* per invocation: pc, plans, mode, i, entries, `at`,
                     \*   its place inside the loop iteration, the files
                     \*   shutil.copy2 holds open (fsrc, fdst), the bytes
                     \*   it has copied (offset), the rows it has written
    xdev,            \* the directories "s" and "t" lie on two filesystems
    performed,       \* history: the loop iterations in the order they ran
    journal_ops      \* history: for every journal line, its loop iteration

conc_vars == <<shared_fs, shared_dirs, shared_journal, invocation, xdev,
               performed, journal_ops>>

\* TaskReflector (tools/reflection/core.py)
VARIABLES
    reflect_in,      \* the task list last handed to reflect
    reflect_out      \* its ReflectionResult: tasks, meta, cycles, topo_order

reflect_vars == <<reflect_in, reflect_out>>

\* TaskExecutor (tools/execute_priority.py)
VARIABLES
    completed_tasks, \* TaskExecutor.completed_tasks, a class attribute
    failed_tasks,    \* TaskExecutor.failed_tasks, a class attribute
    sorted_tasks,    \* the sorted list; execute_parallel removes from it
    future_to_task,  \* submitted tasks: task, state, done, the turn in
                     \*   which as_completed hands it out, in the list it
                     \*   is handing out now (batch), handed out or not
    prio_results,    \* the ExecutionResults collected so far
    prio_pc,         \* idle, seq, submit, collect, loop, returned, raised
    prio_idx,        \* position of execute_sequential in sorted_tasks
    max_workers,     \* size of the thread pool
    started,         \* history: every started task with completed_tasks then
    runs             \* number of execute_* calls made

prio_vars == <<completed_tasks, failed_tasks, sorted_tasks, future_to_task,
               prio_results, prio_pc, prio_idx, max_workers, started, runs>>

\* ParallelExecutor (tools/parallel_executor.py)
VARIABLES
    group_tasks,       \* the task list handed to identify_parallel_groups
    parallel_groups,   \* self.parallel_groups
    group_completed,   \* ParallelExecutor.completed_tasks, a class attribute
    group_failed,      \* ParallelExecutor.failed_tasks, a class attribute
    group_pc,          \* idle, group, single, submit, collect, loop,
                       \*   returned, raised
    group_i,           \* position of the submitting loop in the group
    group_idx,         \* position of execute_parallel_groups in the groups
    group_futures,     \* submitted tasks: task, group, state, done, the turn
                       \*   in which as_completed hands it out, handed out
    all_results,       \* the ExecutionResults collected so far
    pool_size,         \* self.max_workers
    group_started      \* history: every started task, completed_tasks then

group_vars == <<group_tasks, parallel_groups, group_completed, group_failed,
                group_pc, group_i, group_idx, group_futures, all_results,
                pool_size, group_started>>

\* AdvancedFileHandler (tools/watchdog_reflector.py)
VARIABLES
    watch_config,      \* self.config: debounce_time, hash_check, or NoConfig
    watch_fs,          \* the watched files on disk: path -> contents
    watch_clock,       \* time.time(), in whole seconds
    file_hashes,       \* self.file_hashes
    last_triggered,    \* self.last_triggered
    skipped_events,    \* self.skipped_events
    watch_call,        \* the should_trigger_reflection call in progress, or
                       \* the last one: its path, the time it read, the
                       \* last_triggered entry before it, its result, and
                       \* the position of the call ("done" once returned)
    watch_calls,       \* should_trigger_reflection calls returned so far
    trigger_content    \* history: contents of a path when it last triggered

watch_vars == <<watch_config, watch_fs, watch_clock, file_hashes,
                last_triggered, skipped_events, watch_call, watch_calls,
                trigger_content>>

\* AutoReflector (tools/auto_reflector.py)
VARIABLES
    total_reflections,       \* self.total_reflections
    successful_reflections,  \* self.successful_reflections
    failed_reflections,      \* self.failed_reflections
    reflection_history,      \* self.reflection_history
    auto_calls,              \* per caller: position in trigger_reflection
    auto_started,            \* number of trigger_reflection calls entered
    auto_returns             \* history: call, run and value of each return

auto_vars == <<total_reflections, successful_reflections, failed_reflections,
               reflection_history, auto_calls, auto_started, auto_returns>>

exec_vars == <<fs, dirs, journal, tail, journal_exists, pc, plans, mode, i,
               entries, rb, j, origin, moved, jlen0, rb_fs0, rb_dirs0, last,
               prev, work, ops>>

vars == <<exec_vars, plan_vars, rules_vars, cluster_vars, scan_vars,
         conc_vars, reflect_vars, prio_vars, group_vars, watch_vars, auto_vars>>

\* --------------------------------------------------------------- helpers
Exists(f, p) == f[p] # NoFile

\* shutil.move(src, dst) on files: rename, replacing whatever is at dst
ShutilMove_KeepSource(f, s, t) == [f EXCEPT ![t] = f[s]]
ShutilMove(f, s, t) ==
    IF s = t THEN f ELSE [f EXCEPT ![t] = f[s], ![s] = NoFile]

\* shutil.copy2(src, dst), replacing whatever is at dst (src = dst would
\* raise SameFileError; a plan's target differs from its source)
ShutilCopy2(f, s, t) == [f EXCEPT ![t] = f[s]]

\* ensure_directory(path): mkdir(parents=True, exist_ok=True)
EnsureDirectory(d, dir) == d \cup {dir}

\* the dict appended to `entries` for a plan
JournalRow_SwappedPaths(plan, status) ==
    [original_path |-> plan.target_path, target_path |-> plan.source_path,
     doc_id |-> plan.doc_id, status |-> status]
JournalRow(plan, status) ==
    [original_path |-> plan.source_path, target_path |-> plan.target_path,
     doc_id |-> plan.doc_id, status |-> status]

\* one iteration of the loop of execute_plans
ExecOne_MkdirFirst(f, d, plan, m) ==
    LET d2 == EnsureDirectory(d, Parent(plan.target_path)) IN
    IF ~Exists(f, plan.source_path)
    THEN [fs |-> f, dirs |-> d2, entry |-> JournalRow(plan, "missing")]
    ELSE [fs |-> IF m = "move"
                 THEN ShutilMove(f, plan.source_path, plan.target_path)
                 ELSE ShutilCopy2(f, plan.source_path, plan.target_path),
          dirs |-> d2,
          entry |-> JournalRow(plan, IF m = "move" THEN "moved" ELSE "copied")]
ExecOne(f, d, plan, m) ==
    IF ~Exists(f, plan.source_path)
    THEN [fs |-> f, dirs |-> d, entry |-> JournalRow(plan, "missing")]
    ELSE [fs |-> IF m = "move"
                 THEN ShutilMove(f, plan.source_path, plan.target_path)
                 ELSE ShutilCopy2(f, plan.source_path, plan.target_path),
          dirs |-> EnsureDirectory(d, Parent(plan.target_path)),
          entry |-> JournalRow(plan, IF m = "move" THEN "moved" ELSE "copied")]

\* append_jsonl: open(path, "a") and write one line per row.  Bytes left
\* by a stopped writer stay where they are: the first new row continues
\* that unterminated line, which makes the line unparseable (garbled).
AppendJsonl_Truncating(lines, t, rows) ==
    [lines |-> [k \in 1..Len(rows) |-> [entry |-> rows[k], garbled |-> FALSE]],
     tail |-> <<>>]
AppendJsonl(lines, t, rows) ==
    IF rows = <<>> THEN [lines |-> lines, tail |-> t]
    ELSE [lines |-> lines \o
              [k \in 1..Len(rows) |->
                  [entry |-> rows[k], garbled |-> (k = 1 /\ t # <<>>)]],
          tail |-> <<>>]

\* what a write of append_jsonl that stops in row `row` leaves at the end of
\* the file, which ended in t: a part of the row, or (`whole`) all of its
\* JSON text and no line terminator
StoppedWrite(t, row, whole) ==
    <<[entry |-> row, garbled |-> (t # <<>> \/ ~whole)]>>

\* read_jsonl: [] for a missing file; json.loads of every non-blank line,
\* which raises JSONDecodeError on a line that is not JSON.  A last line
\* without terminator is a line like the others.
ReadJsonl(exists, lines, t) ==
    IF ~exists THEN [raised |-> FALSE, entries |-> <<>>]
    ELSE LET all == lines \o t
         IN IF \E k \in 1..Len(all) : all[k].garbled
            THEN [raised |-> TRUE, entries |-> <<>>]
            ELSE [raised |-> FALSE,
                  entries |-> [k \in 1..Len(all) |-> all[k].entry]]

\* reversed(entries)
Reversed_Forward(s) == s
Reversed(s) == [k \in 1..Len(s) |-> s[Len(s) + 1 - k]]

\* one iteration of the loop of rollback_from_journal
RollbackOne(f, d, e) ==
    IF ~Exists(f, e.target_path)
    THEN [fs |-> f, dirs |-> d, moved |-> FALSE]
    ELSE [fs |-> ShutilMove(f, e.target_path, e.original_path),
          dirs |-> EnsureDirectory(d, Parent(e.original_path)),
          moved |-> TRUE]

\* ================================================================ planner
HashLen == 7

\* dict.get(key, default)
DictGet(d, key, default) == IF key \in DOMAIN d THEN d[key] ELSE default

\* a str given by its characters, as the string it is
RECURSIVE Str(_)
Str(cs) == IF cs = <<>> THEN "" ELSE Head(cs) \o Str(Tail(cs))

\* s[:n]
Prefix(cs, n) == SubSeq(cs, 1, IF Len(cs) < n THEN Len(cs) ELSE n)

BUCKET_DIRECTORY_MAP ==
    [b \in {"src", "scripts", "tests", "docs", "reports", "configs", "data",
            "notebooks", "archive", "tmp"} |->
        CASE b = "src" -> "src/core"
          [] b = "tests" -> "tests/unit"
          [] b = "data" -> "data/raw"
          [] OTHER -> b]

\* The scan index.  A path is kept as pathlib splits it (parent, stem,
\* suffix), a digest as its characters.  d1 and d2 are files of the same
\* name whose digests agree in the first seven characters; the record of
\* d3 has no digest; d4 has no record.  Every record has a path.
DocIds == {"d1", "d2", "d3", "d4"}

ScanIndex ==
    ("d1" :> [path |-> [parent |-> "s1", stem |-> "a", suffix |-> ".txt"],
              blake3 |-> <<"a", "b", "c", "d", "e", "f", "0", "1">>])
    @@ ("d2" :> [path |-> [parent |-> "s2", stem |-> "a", suffix |-> ".txt"],
                 blake3 |-> <<"a", "b", "c", "d", "e", "f", "0", "2">>])
    @@ ("d3" :> [path |-> [parent |-> "s3", stem |-> "a", suffix |-> ".txt"]])

\* str(path) and path.name
PathStr(path) == path.parent \o "/" \o path.stem \o path.suffix
PathName(path) == path.stem \o path.suffix

\* score_map: the classifier's bucket per document (none for d3, d4)
ScoreMap == ("d1" :> "docs") @@ ("d2" :> "docs")

\* the "role_bucket_map" tables a projects file can carry: `organize` reads
\* the file and takes each table as it stands (it may name documents that
\* are no members, and leave members out)
RoleMaps == {<<>>, ("d3" :> "tests"), ("d2" :> "misc")}

\* cluster results as `organize` loads them: up to MaxDocs distinct
\* documents in one project, or split over two projects, the first of them
\* labelled "p".  The projects of a projects file may carry the same label.
DocLists == {ds \in UNION {[1..n -> DocIds] : n \in 1..MaxDocs} :
                \A a, b \in 1..Len(ds) : a # b => ds[a] # ds[b]}

\* ClusterProject.from_dict on one payload of the projects file
ClusterProject(id, label, doc_ids, roles) ==
    [project_id |-> id, project_label |-> label, doc_ids |-> doc_ids,
     role_bucket_map |-> roles]

ClusterResults ==
    {<<ClusterProject("project_001", l, ds, roles)>> :
        l \in Labels, ds \in DocLists, roles \in RoleMaps}
    \cup UNION {
        {<<ClusterProject("project_001", "p", SubSeq(ds, 1, c), roles),
           ClusterProject("project_002", l, SubSeq(ds, c + 1, Len(ds)), roles)>> :
            c \in 1..(Len(ds) - 1)} :
        l \in Labels, ds \in DocLists, roles \in RoleMaps}

\* files that may lie in the target tree before the first run
SeedSets ==
    {{TargetRoot \o "/p/docs/a__abcdef0.txt"},
     {TargetRoot \o "/p/docs/a.txt", TargetRoot \o "/p/docs/a__abcdef0.txt"}}

\* schema.target_root / project.project_label
ProjectRoot(label) == TargetRoot \o "/" \o label

\* project.role_bucket_map.get(doc_id, score_map.get(doc_id, "archive"))
BucketOf_ScoreFirst(project, doc_id) ==
    DictGet(ScoreMap, doc_id, DictGet(project.role_bucket_map, doc_id, "archive"))
BucketOf(project, doc_id) ==
    DictGet(project.role_bucket_map, doc_id, DictGet(ScoreMap, doc_id, "archive"))

\* base = project_root / BUCKET_DIRECTORY_MAP.get(bucket, "archive")
Base(project_root, bucket) ==
    project_root \o "/" \o DictGet(BUCKET_DIRECTORY_MAP, bucket, "archive")

\* hash_suffix = digest[:7]
HashSuffix(digest) == Str(Prefix(digest, HashLen))

\* name_suffix of the retry with counter `attempt`
NameSuffix_NoCounter(hash_suffix, n) == "__" \o hash_suffix
NameSuffix_NumberedFromStart(hash_suffix, n) ==
    "__" \o hash_suffix \o "_" \o ToString(n + 1)
NameSuffix(hash_suffix, n) ==
    IF n = 0 THEN "__" \o hash_suffix
    ELSE "__" \o hash_suffix \o "_" \o ToString(n)

\* the loop condition: candidate in used_targets or candidate.exists()
Blocked_DiskOnly(c, used, f) == Exists(f, c)
Blocked(c, used, f) == c \in used \/ Exists(f, c)

\* used_targets when the member at position d of a project is taken up:
\* every project starts with used_targets = set()
UsedTargetsAt_Global(used, d) == used
UsedTargetsAt(used, d) == IF d = 1 THEN {} ELSE used

\* the OrganizePlan build_plans appends
OrganizePlan(project, doc_id, bucket, source_path, target_path, hash_suffix) ==
    [doc_id |-> doc_id, project_id |-> project.project_id,
     project_label |-> project.project_label, bucket |-> bucket,
     source_path |-> source_path, target_path |-> target_path,
     hash_suffix |-> hash_suffix]

\* where the loops of build_plans stand after the document at (p, d):
\* at the next member, at the next project, or past the last one
AfterDoc(c, p, d) ==
    IF d < Len(c[p].doc_ids) THEN [ppc |-> "build", pidx |-> p, didx |-> d + 1]
    ELSE IF p < Len(c) THEN [ppc |-> "build", pidx |-> p + 1, didx |-> 1]
    ELSE [ppc |-> "exec", pidx |-> p, didx |-> d]

PlanInit ==
    /\ disk = [p \in PlanPaths |->
                 IF \E d \in DOMAIN ScanIndex : PathStr(ScanIndex[d].path) = p
                 THEN CHOOSE d \in DOMAIN ScanIndex : PathStr(ScanIndex[d].path) = p
                 ELSE NoFile]
    /\ cluster = <<>>
    /\ pmode = "move"
    /\ ppc = "idle"
    /\ pidx = 1
    /\ didx = 1
    /\ used_targets = {}
    /\ candidate = ""
    /\ attempt = 0
    /\ tried = {}
    /\ pplans = <<>>
    /\ xidx = 1
    /\ rerun = FALSE
    /\ disk_run1 = disk

\* ============================================================ classifier
MaxBuckets == 2  \* buckets of a rule configuration

\* A str is kept as the sequence of its characters.
WeightKeys == {"mimetype", "name", "dir", "content"}

\* str.lower(), on the letters the strings of the model are written in
Lower(c) == IF c = "A" THEN "a" ELSE IF c = "B" THEN "b" ELSE c
LowerStr(s) == [k \in 1..Len(s) |-> Lower(s[k])]

\* needle in haystack
Contains(haystack, needle) ==
    \E k \in 0..(Len(haystack) - Len(needle)) :
        SubSeq(haystack, k + 1, k + Len(needle)) = needle

\* sep.join(items)
RECURSIVE Join(_, _)
Join(sep, items) ==
    IF items = <<>> THEN <<>>
    ELSE IF Len(items) = 1 THEN items[1]
    ELSE items[1] \o sep \o Join(sep, Tail(items))

\* utils.score_match: the keywords that occur in the value, case ignored
ScoreMatch(value, keywords) ==
    LET lowered == LowerStr(value)
        matches == SelectSeq(keywords,
                             LAMBDA kw : Contains(lowered, LowerStr(kw)))
    IN [score |-> Len(matches), matches |-> matches]

\* rule_config.weights.get(key, 1)
WeightOf_Negated(weights, key) == 0 - DictGet(weights, key, 1)
WeightOf(weights, key) == DictGet(weights, key, 1)

\* the documents (the fields of FileDocument that score_document reads)
Documents ==
    {[doc_id |-> "x1", ext |-> <<".py">>, name |-> <<"A", "b">>,
      dir_hint |-> <<"b">>, sample_text |-> <<"a", "a", "b">>,
      imports_first |-> << <<"a">>, <<"b">> >>, md_headings |-> <<>>],
     [doc_id |-> "x2", ext |-> <<".md">>, name |-> <<"b">>,
      dir_hint |-> <<"a">>, sample_text |-> <<>>,
      imports_first |-> <<>>, md_headings |-> << <<"A", "b">> >>],
     [doc_id |-> "x3", ext |-> <<".txt">>, name |-> <<"c">>,
      dir_hint |-> <<"c">>, sample_text |-> <<"c">>,
      imports_first |-> <<>>, md_headings |-> <<>>]}

\* the bucket rules a configuration is made of
BucketRules ==
    {[name |-> "src", exts |-> << <<".py">> >>,
      name_keywords |-> << <<"a", "b">> >>, dir_keywords |-> <<>>,
      code_hints |-> << <<"a">>, <<"a", "a">> >>,
      imports |-> << <<"a", " ", "b">> >>, title_keywords |-> <<>>],
     [name |-> "scripts", exts |-> << <<".py">> >>,
      name_keywords |-> << <<"B">> >>, dir_keywords |-> << <<"b">> >>,
      code_hints |-> <<>>, imports |-> <<>>, title_keywords |-> <<>>],
     [name |-> "docs", exts |-> << <<".md">> >>,
      name_keywords |-> <<>>, dir_keywords |-> << <<"a">> >>,
      code_hints |-> <<>>, imports |-> <<>>,
      title_keywords |-> << <<"a", "b">> >>]}

\* load_rule_config: the buckets in the order of the file (a dict: every
\* name once), the weights as integers; a weight may be left out
RuleConfigs ==
    {[buckets |-> bs, weights |-> w] :
        bs \in {b \in UNION {[1..n -> BucketRules] : n \in 0..MaxBuckets} :
                  \A a, c \in 1..Len(b) : a # c => b[a].name # b[c].name},
        w \in [WeightKeys -> -1..MaxWeight]
              \cup [WeightKeys \ {"name"} -> -1..MaxWeight]}

\* one iteration of the loop of score_document: score and reasons of a bucket
BucketScore(document, rule, weights) ==
    LET ext_hit == \E k \in 1..Len(rule.exts) : rule.exts[k] = document.ext
        nm == ScoreMatch(document.name, rule.name_keywords)
        dr == ScoreMatch(document.dir_hint, rule.dir_keywords)
        ct == ScoreMatch(document.sample_text, rule.code_hints)
        im == ScoreMatch(Join(<<" ">>, document.imports_first), rule.imports)
        ti == ScoreMatch(Join(<<" ">>, document.md_headings),
                         rule.title_keywords)
        Reason(kind, m) ==
            IF m.score # 0 THEN <<[kind |-> kind, matches |-> m.matches]>>
            ELSE <<>>
    IN [score |->
            (IF ext_hit THEN WeightOf(weights, "mimetype") ELSE 0)
            + nm.score * WeightOf(weights, "name")
            + dr.score * WeightOf(weights, "dir")
            + ct.score * WeightOf(weights, "content")
            + im.score * WeightOf(weights, "content")
            + ti.score * WeightOf(weights, "content"),
        reasons |->
            (IF ext_hit THEN <<[kind |-> "ext", matches |-> <<document.ext>>]>>
             ELSE <<>>)
            \o Reason("name", nm) \o Reason("dir", dr)
            \o Reason("content", ct) \o Reason("imports", im)
            \o Reason("titles", ti)]

\* if score > best_score
Better_OrEqual(score, best_score) == score >= best_score
Better(score, best_score) == score > best_score

\* the loop of score_document from bucket k on
RECURSIVE ScoreLoop(_, _, _, _)
ScoreLoop(document, cfg, k, best) ==
    IF k > Len(cfg.buckets) THEN best
    ELSE LET rule == cfg.buckets[k]
             b == BucketScore(document, rule, cfg.weights)
         IN ScoreLoop(document, cfg, k + 1,
                IF Better(b.score, best.score)
                THEN [doc_id |-> document.doc_id, best_bucket |-> rule.name,
                      score |-> b.score,
                      reasons |-> IF b.reasons = <<>>
                                  THEN <<[kind |-> "matched", matches |-> <<>>]>>
                                  ELSE b.reasons]
                ELSE best)

\* score_document (float(best_score) is the same number)
ScoreDocument(document, cfg) ==
    ScoreLoop(document, cfg, 1,
              [doc_id |-> document.doc_id, best_bucket |-> "archive",
               score |-> 0,
               reasons |-> <<[kind |-> "fallback", matches |-> <<>>]>>])

\* the score of every bucket of the configuration, in its order
BucketTotals(document, cfg) ==
    [k \in 1..Len(cfg.buckets) |->
        BucketScore(document, cfg.buckets[k], cfg.weights).score]

RulesInit ==
    /\ rpc = "idle"
    /\ rule_config = [buckets |-> <<>>, weights |-> <<>>]
    /\ rdoc = <<>>
    /\ scored = <<>>
    /\ totals = <<>>
    /\ prev_scored = <<>>
    /\ prev_totals = <<>>
    /\ raised = FALSE

\* ============================================================== clusterer
MaxInputs == 3   \* documents handed to cluster_documents

LowerLetters ==
    <<"a", "b", "c", "d", "e", "f", "g", "h", "i", "j", "k", "l", "m",
      "n", "o", "p", "q", "r", "s", "t", "u", "v", "w", "x", "y", "z">>
Digits == <<"0", "1", "2", "3", "4", "5", "6", "7", "8", "9">>

IndexOf(seq, x) == CHOOSE k \in 1..Len(seq) : seq[k] = x
Occurs(seq, x) == \E k \in 1..Len(seq) : seq[k] = x

\* ord(c): the code point by which Python orders the characters of a str
Ord(c) ==
    IF Occurs(LowerLetters, c) THEN 96 + IndexOf(LowerLetters, c)
    ELSE IF Occurs(Digits, c) THEN 47 + IndexOf(Digits, c)
    ELSE CASE c = "A" -> 65 [] c = "B" -> 66 [] c = "_" -> 95
           [] c = " " -> 32 [] c = "-" -> 45 [] c = "." -> 46
           [] c = "/" -> 47

\* ch.isalnum()
IsAlnum(c) == Occurs(LowerLetters, c) \/ Occurs(Digits, c) \/ c \in {"A", "B"}

\* a < b on str: the first differing code point decides, a proper prefix
\* comes first
RECURSIVE StrLess(_, _)
StrLess(a, b) ==
    IF b = <<>> THEN FALSE
    ELSE IF a = <<>> THEN TRUE
    ELSE IF Head(a) # Head(b) THEN Ord(Head(a)) < Ord(Head(b))
    ELSE StrLess(Tail(a), Tail(b))

\* str.strip("_ ")
RECURSIVE LStrip(_)
LStrip(s) ==
    IF s # <<>> /\ Head(s) \in {"_", " "} THEN LStrip(Tail(s)) ELSE s
Strip(s) == Reversed(LStrip(Reversed(LStrip(s))))

\* _normalize_label
NormalizeLabel(label) ==
    LET normalized ==
            [k \in 1..Len(label) |->
                IF IsAlnum(label[k]) \/ label[k] \in {"_", "-"}
                THEN label[k] ELSE "_"]
    IN LowerStr(Strip(normalized))

\* the label of a document that matches nothing
GeneralProject ==
    <<"g", "e", "n", "e", "r", "a", "l", "_",
      "p", "r", "o", "j", "e", "c", "t">>

\* the first hint, in the order of `hints`, whose lowercase is a segment;
\* 0 when there is none
FirstHint_Last(hints, segments) ==
    LET hit == {k \in 1..Len(hints) : Occurs(segments, LowerStr(hints[k]))}
    IN IF hit = {} THEN 0 ELSE CHOOSE k \in hit : \A l \in hit : l <= k
FirstHint(hints, segments) ==
    LET hit == {k \in 1..Len(hints) : Occurs(segments, LowerStr(hints[k]))}
    IN IF hit = {} THEN 0 ELSE CHOOSE k \in hit : \A l \in hit : k <= l

\* infer_project_label(path, hints); `parts` is path.parts
Segments(parts) ==
    LET long == SelectSeq(parts, LAMBDA segment : Len(segment) > 2)
    IN [k \in 1..Len(long) |-> LowerStr(long[k])]
InferProjectLabel(parts, hints) ==
    LET segments == Segments(parts)
        n == Len(segments)
        h == FirstHint(hints, segments)
    IN IF h # 0 THEN NormalizeLabel(hints[h])
       ELSE IF n >= 2
       THEN NormalizeLabel(Join(<<"_">>, SubSeq(segments, n - 1, n)))
       ELSE IF n >= 1 THEN NormalizeLabel(segments[n])
       ELSE GeneralProject

\* f"project_{index+1:03d}" for the 0-based index
ProjectId_FromZero(index) ==
    "project_" \o (IF index < 10 THEN "00" ELSE IF index < 100 THEN "0" ELSE "")
               \o ToString(index)
ProjectId(index) ==
    LET n == index + 1
    IN "project_" \o (IF n < 10 THEN "00" ELSE IF n < 100 THEN "0" ELSE "")
                  \o ToString(n)

\* the dict `clusters` after the first loop: the labels in the order of
\* their first document, each with its documents in input order
RECURSIVE GroupByLabel(_, _, _)
GroupByLabel_FirstOnly(documents, hints, clusters) ==
    LET label(k) == InferProjectLabel(documents[k].parent, hints)
        firsts == SelectSeq([k \in 1..Len(documents) |-> k],
                            LAMBDA k : \A l \in 1..(k - 1) : label(l) # label(k))
    IN [n \in 1..Len(firsts) |->
          [label |-> label(firsts[n]), docs |-> <<documents[firsts[n]]>>]]
GroupByLabel(documents, hints, clusters) ==
    IF documents = <<>> THEN clusters
    ELSE LET document == Head(documents)
             label == InferProjectLabel(document.parent, hints)
             at == {k \in 1..Len(clusters) : clusters[k].label = label}
         IN GroupByLabel(Tail(documents), hints,
                IF at = {}
                THEN Append(clusters, [label |-> label, docs |-> <<document>>])
                ELSE LET k == CHOOSE x \in at : TRUE
                     IN [clusters EXCEPT ![k].docs = Append(@, document)])

\* sorted(clusters.items()): the keys differ, so the labels alone decide
RECURSIVE SortedItems(_)
SortedItems_Unsorted(items) == items
SortedItems(items) ==
    IF items = <<>> THEN <<>>
    ELSE LET k == CHOOSE x \in 1..Len(items) :
                    \A y \in 1..Len(items) :
                        y = x \/ StrLess(items[x].label, items[y].label)
         IN <<items[k]>>
            \o SortedItems(SubSeq(items, 1, k - 1)
                           \o SubSeq(items, k + 1, Len(items)))

\* score_map of the clusterer: doc_id -> bucket found by the rules
ClusterScoreMap == ("c1" :> "src") @@ ("c3" :> "docs")

\* cluster_documents
ClusterDocuments(documents, hints, score_map) ==
    LET items == SortedItems(GroupByLabel(documents, hints, <<>>))
    IN [index \in 1..Len(items) |->
          LET docs == items[index].docs
          IN [project_id |-> ProjectId(index - 1),
              project_label |-> items[index].label,
              doc_ids |-> [k \in 1..Len(docs) |-> docs[k].doc_id],
              role_bucket_map |->
                  [d \in {docs[k].doc_id : k \in 1..Len(docs)} |->
                      LET doc == docs[CHOOSE k \in 1..Len(docs) :
                                          docs[k].doc_id = d]
                      IN DictGet(score_map, d, doc.bucket)]]]

\* ClusterInput: the fields cluster_documents reads; `parent` is
\* path.parent.parts, `bucket` the bucket the caller gave the document.
\* The doc_ids differ.
ClusterInputs ==
    {[doc_id |-> "c1", bucket |-> "archive",
      parent |-> << <<"/">>, <<"a", "b", "c">>, <<"A", "b", "B">> >>],
     [doc_id |-> "c2", bucket |-> "docs",
      parent |-> << <<"a", "b", "c">>, <<"a", "b", "b">> >>],
     [doc_id |-> "c3", bucket |-> "tests",
      parent |-> << <<"b", "c", "d">>, <<"a", ".", "b">> >>],
     [doc_id |-> "c4", bucket |-> "src",
      parent |-> << <<"a", "b">> >>],
     [doc_id |-> "c5", bucket |-> "src",
      parent |-> << <<".", ".", "a", "-", "b">> >>],
     [doc_id |-> "c6", bucket |-> "docs",
      parent |-> << <<"_", ".", " ">>, <<"a", "b">> >>]}

Injective(s) == \A k, l \in 1..Len(s) : s[k] = s[l] => k = l

DocumentLists ==
    {s \in UNION {[1..n -> ClusterInputs] : n \in 1..MaxInputs} : Injective(s)}

\* the hints of a call
HintLists ==
    {<<>>,
     << <<"A", "b", "b">> >>,
     << <<"a", ".", "b">>, <<"a", "b", "c">> >>,
     << <<"a", "b", "c">>, <<"A", "b", "b">> >>,
     << <<"A", "b", "b">>, <<"a", "b", "c">> >>}

Orderings(s) ==
    {t \in [1..Len(s) -> {s[k] : k \in 1..Len(s)}] : Injective(t)}

ClusterInit ==
    /\ cpc = "idle"
    /\ cinput = [documents |-> <<>>, hints |-> <<>>]
    /\ cresult = <<>>
    /\ cinput2 = [documents |-> <<>>, hints |-> <<>>]
    /\ cresult2 = <<>>

\* ================================================================ scanner
MaxScans == 2    \* invocations of scan
MaxChanges == 1  \* changes of the scanned tree before, between and in them

\* limits of the extractors
ImportsLimit == 5
TopCommentLimit == 200
HeadingsLimit == 5
JsonKeysLimit == 10
CsvHeaderLimit == 20

\* A file's content is the sequence of its bytes, all ASCII, so that
\* raw.decode("utf-8") is the same sequence read as characters.
UpperLetters ==
    <<"A", "B", "C", "D", "E", "F", "G", "H", "I", "J", "K", "L", "M",
      "N", "O", "P", "Q", "R", "S", "T", "U", "V", "W", "X", "Y", "Z">>
IsLetter(c) == Occurs(LowerLetters, c) \/ Occurs(UpperLetters, c)
IsDigit(c) == Occurs(Digits, c)
\* \s
IsSpace(c) == c \in {" ", "\n", "\t", "\r", "\f"}
NonSpace(c) == ~IsSpace(c)
\* [A-Za-z0-9._%+-] and [A-Za-z0-9.-]
IsLocal(c) == IsLetter(c) \/ IsDigit(c) \/ c \in {".", "_", "%", "+", "-"}
IsDomain(c) == IsLetter(c) \/ IsDigit(c) \/ c \in {".", "-"}

\* the number of leading characters that pass a test (a greedy x+), given
\* for every character whether it passes
RunLen(passes) ==
    CHOOSE n \in 0..Len(passes) :
        /\ \A k \in 1..n : passes[k]
        /\ n = Len(passes) \/ ~passes[n + 1]

Drop(s, n) == SubSeq(s, n + 1, Len(s))
Take(s, n) == SubSeq(s, 1, IF n < Len(s) THEN n ELSE Len(s))
StartsWith(s, prefix) ==
    Len(s) >= Len(prefix) /\ SubSeq(s, 1, Len(prefix)) = prefix

\* PATH_PATTERN.match at the head of s: the length of the match, 0 for none
PathMatch(s) ==
    IF Len(s) >= 2 /\ s[1] = "/" /\ NonSpace(s[2])
    THEN 1 + RunLen([k \in 1..(Len(s) - 1) |-> NonSpace(s[k + 1])])
    ELSE IF /\ Len(s) >= 5 /\ IsLetter(s[1]) /\ s[2] = ":"
            /\ s[3] = "\\" /\ s[4] = "\\" /\ NonSpace(s[5])
    THEN 4 + RunLen([k \in 1..(Len(s) - 4) |-> NonSpace(s[k + 4])])
    ELSE 0

\* EMAIL_PATTERN.match at the head of s.  The local part runs up to the
\* "@"; the domain is cut at the last "." that two letters follow.
EmailMatch(s) ==
    LET l == RunLen([k \in DOMAIN s |-> IsLocal(s[k])])
        rest == Drop(s, l + 1)
        d == RunLen([k \in DOMAIN rest |-> IsDomain(rest[k])])
        dots == {p \in 2..d : /\ rest[p] = "."
                              /\ p + 2 <= Len(rest)
                              /\ IsLetter(rest[p + 1])
                              /\ IsLetter(rest[p + 2])}
        p == CHOOSE x \in dots : \A y \in dots : y <= x
    IN IF l >= 1 /\ Len(s) > l /\ s[l + 1] = "@" /\ dots # {}
       THEN l + 1 + p
              + RunLen([k \in 1..(Len(rest) - p) |-> IsLetter(rest[k + p])])
       ELSE 0

\* DIGIT_PATTERN.match at the head of s
DigitMatch(s) ==
    LET n == RunLen([k \in DOMAIN s |-> IsDigit(s[k])])
    IN IF n >= 4 THEN n ELSE 0

PathToken == <<"[", "P", "A", "T", "H", "]">>
EmailToken == <<"[", "E", "M", "A", "I", "L", "]">>
DigitToken == <<"#", "#", "#", "#">>

\* pattern.sub(token, s): leftmost matches, left to right, not overlapping
RECURSIVE PathSub(_)
PathSub(s) ==
    IF s = <<>> THEN <<>>
    ELSE LET m == PathMatch(s)
         IN IF m > 0 THEN PathToken \o PathSub(Drop(s, m))
            ELSE <<Head(s)>> \o PathSub(Tail(s))
RECURSIVE EmailSub(_)
EmailSub(s) ==
    IF s = <<>> THEN <<>>
    ELSE LET m == EmailMatch(s)
         IN IF m > 0 THEN EmailToken \o EmailSub(Drop(s, m))
            ELSE <<Head(s)>> \o EmailSub(Tail(s))
RECURSIVE DigitSub(_)
DigitSub(s) ==
    IF s = <<>> THEN <<>>
    ELSE LET m == DigitMatch(s)
         IN IF m > 0 THEN DigitToken \o DigitSub(Drop(s, m))
            ELSE <<Head(s)>> \o DigitSub(Tail(s))

\* mask_sensitive_text
MaskSensitiveText(value) == DigitSub(EmailSub(PathSub(value)))

\* str.splitlines(), for the line end "\n"
NotNewline(c) == c # "\n"
RECURSIVE SplitLines(_)
SplitLines(s) ==
    IF s = <<>> THEN <<>>
    ELSE LET n == RunLen([k \in DOMAIN s |-> NotNewline(s[k])])
         IN <<Take(s, n)>> \o SplitLines(Drop(s, n + 1))

\* str.strip(chars); str.strip() is StripOf(s, the whitespace)
StripOf(s, chars) ==
    LET a == RunLen([k \in DOMAIN s |-> s[k] \in chars])
        b == RunLen([k \in DOMAIN s |-> Reversed(s)[k] \in chars])
    IN IF a = Len(s) THEN <<>> ELSE SubSeq(s, a + 1, Len(s) - b)
Whitespace == {" ", "\n", "\t", "\r", "\f"}

\* str.split(sep) for a one-character separator
RECURSIVE Split(_, _)
Split(s, sep) ==
    LET n == RunLen([k \in DOMAIN s |-> s[k] # sep])
    IN IF n = Len(s) THEN <<s>>
       ELSE <<Take(s, n)>> \o Split(Drop(s, n + 1), sep)

\* _read_text_sample: the first sample_bytes bytes, decoded and masked;
\* "" for a file that cannot be read or is gone
ReadTextSample(file, sample_bytes) ==
    IF file.access \in {"unreadable", "absent"} THEN <<>>
    ELSE MaskSensitiveText(Take(file.content, sample_bytes))

\* _extract_imports
ExtractImports(text) ==
    LET lines == SplitLines(text)
        stripped == [k \in 1..Len(lines) |-> StripOf(lines[k], Whitespace)]
        found == SelectSeq(stripped, LAMBDA x :
                    \/ StartsWith(x, <<"i", "m", "p", "o", "r", "t", " ">>)
                    \/ /\ StartsWith(x, <<"f", "r", "o", "m", " ">>)
                       /\ Contains(x, <<" ", "i", "m", "p", "o", "r", "t", " ">>))
    IN Take(found, ImportsLimit)

\* _extract_top_comment; None is the empty list, a comment a list of one
ExtractTopComment(text) ==
    LET all == SplitLines(text)
        stripped == [k \in 1..Len(all) |-> StripOf(all[k], Whitespace)]
        lines == SelectSeq(stripped, LAMBDA x : x # <<>>)
    IN IF lines = <<>> THEN <<>>
       ELSE IF \/ StartsWith(lines[1], <<"#">>)
               \/ StartsWith(lines[1], <<"\"", "\"">>)
               \/ StartsWith(lines[1], <<"'", "'", "'">>)
       THEN <<Take(lines[1], TopCommentLimit)>>
       ELSE <<>>

\* _extract_markdown_headings
ExtractMarkdownHeadings(text) ==
    LET lines == SelectSeq(SplitLines(text), LAMBDA x : StartsWith(x, <<"#">>))
        stripped == [k \in 1..Len(lines) |-> StripOf(lines[k], {"#", " "})]
    IN Take(SelectSeq(stripped, LAMBDA x : x # <<>>), HeadingsLimit)

\* _extract_json_keys, for the JSON texts of the model: an object of one
\* member whose value is a number, {"key": 123}.  Text that is not JSON,
\* which is every other text of the model, gives [].
ExtractJsonKeys(text) ==
    LET n == Len(text)
        key == RunLen([k \in 1..(Len(text) - 2) |->
                          text[k + 2] \notin {"\"", "\\"}])
        value == Drop(text, key + 5)
    IN IF /\ n >= 8
          /\ Take(text, 2) = <<"{", "\"">>
          /\ key >= 0
          /\ SubSeq(text, key + 3, key + 5) = <<"\"", ":", " ">>
          /\ Len(value) >= 2
          /\ value[Len(value)] = "}"
          /\ \A k \in 1..(Len(value) - 1) : IsDigit(value[k])
       THEN Take(<<SubSeq(text, 3, key + 2)>>, JsonKeysLimit)
       ELSE <<>>

\* _extract_csv_header: the cells of the first row of the file itself (no
\* quoted cells in the model); [] for an empty, unreadable or missing file
ExtractCsvHeader(file) ==
    IF file.access \in {"unreadable", "absent"} \/ file.content = <<>> THEN <<>>
    ELSE LET row == Take(file.content,
                         RunLen([k \in DOMAIN file.content |->
                                    NotNewline(file.content[k])]))
         IN IF row = <<>> THEN <<>>
            ELSE Take(Split(row, ","), CsvHeaderLimit)

\* the contents of the model
KCsv == <<"a", "@", "b", ".", "c", "o", ",", "n", "\n", "1", ",", "2">>
KPy ==
    <<"#", " ", "1", "2", "3", "4", "5", "\n",
      "i", "m", "p", "o", "r", "t", " ", "a">>
KNew == <<"x", ",", "y", "\n">>
KJson == <<"{", "\"", "k", "\"", ":", " ", "1", "}">>
Contents == {KCsv, KPy, KNew, KJson}

\* compute_blake3: hexdigest of the content.  The values are those of
\* hashlib.blake2b(digest_size=32), which the code falls back to when the
\* blake3 module is missing.
ComputeBlake3(content) ==
    CASE content = KCsv ->
           "7b8d471e9a1dfec1ce9286a5095b60348b5644b640532c098776aca7cc8ee236"
      [] content = KPy ->
           "87f8430b8b8a59faf86f07a3c95567b3d39464cf11357967af5d8415492b2e5e"
      [] content = KNew ->
           "c7fcf2395545bfea02abaf609a1dec8c7030c51335cd455bf9c4ba6801e5333f"
      [] content = KJson ->
           "77b19e6c0fd38d4a44ef26d57aa558df8d4e521a4fdf6e1066bfa0502631b131"

\* the scanned tree: directories r and r/s exist, x does not
ScanPathSet == {"r/a.csv", "r/s/b.py", "r/s/c.csv"}
RootExists(root) == root \in {"r", "r/s"}
\* path.suffix.lower()
Suffix(path) == IF path = "r/s/b.py" THEN ".py" ELSE ".csv"
\* the orders in which the directory r/s hands out its entries: rglob
\* yields them as the file system lists them, and the code does not sort
DirOrders ==
    {<<"r/s/b.py", "r/s/c.csv">>, <<"r/s/c.csv", "r/s/b.py">>}
\* list(root.rglob("*")): the entries of the root, then those of its
\* subdirectory (the files among them)
Under(root, order) ==
    IF root = "r" THEN <<"r/a.csv">> \o order ELSE order

\* str(uuid.uuid5(UUID_NAMESPACE, name)): the SHA-1 based UUID of the name
Uuid5 ==
    ("r/a.csv::7b8d471e9a1dfec1ce9286a5095b60348b5644b640532c098776aca7cc8ee236" :> "beb3e225-7951-598c-92fd-29daa90dd39d")
    @@ ("r/a.csv::87f8430b8b8a59faf86f07a3c95567b3d39464cf11357967af5d8415492b2e5e" :> "4ecca2c5-ca41-5344-9f15-3afa5fcda2a9")
    @@ ("r/a.csv::c7fcf2395545bfea02abaf609a1dec8c7030c51335cd455bf9c4ba6801e5333f" :> "bac32c00-546c-5d6d-a41d-e1273581f0db")
    @@ ("r/a.csv::77b19e6c0fd38d4a44ef26d57aa558df8d4e521a4fdf6e1066bfa0502631b131" :> "8858a627-3459-5337-9c74-8c75f286b6fe")
    @@ ("r/s/b.py::7b8d471e9a1dfec1ce9286a5095b60348b5644b640532c098776aca7cc8ee236" :> "2d45912e-998d-5305-bcb5-e8fee0dd3916")
    @@ ("r/s/b.py::87f8430b8b8a59faf86f07a3c95567b3d39464cf11357967af5d8415492b2e5e" :> "8cc42a66-6de7-5062-90a2-48ba294492a5")
    @@ ("r/s/b.py::c7fcf2395545bfea02abaf609a1dec8c7030c51335cd455bf9c4ba6801e5333f" :> "2af44c1e-a328-5ceb-b323-b3d3c3d10b1b")
    @@ ("r/s/b.py::77b19e6c0fd38d4a44ef26d57aa558df8d4e521a4fdf6e1066bfa0502631b131" :> "fc8d4083-b083-50c6-b95d-6dfce398f391")
    @@ ("r/s/c.csv::7b8d471e9a1dfec1ce9286a5095b60348b5644b640532c098776aca7cc8ee236" :> "1f98ca59-1414-520b-95b1-33fecd8ed6fa")
    @@ ("r/s/c.csv::87f8430b8b8a59faf86f07a3c95567b3d39464cf11357967af5d8415492b2e5e" :> "6e5ef0f2-49eb-5197-8939-050edb2fc960")
    @@ ("r/s/c.csv::c7fcf2395545bfea02abaf609a1dec8c7030c51335cd455bf9c4ba6801e5333f" :> "ac4c3a89-b933-5b2c-b90e-3687de54ac0c")
    @@ ("r/s/c.csv::77b19e6c0fd38d4a44ef26d57aa558df8d4e521a4fdf6e1066bfa0502631b131" :> "b3bd1490-b29d-51b7-83c6-627777792263")
    @@ ("r/a.csv::" :> "011f6536-a1da-52dd-9270-aa6d62607aba")
    @@ ("r/s/b.py::" :> "2d1054e7-6cf0-5f75-a9ec-f72dc759322e")
    @@ ("r/s/c.csv::" :> "e2ee0f54-a7d0-5a8c-8c13-f2080b35a5d7")

\* generate_doc_id
GenerateDocId_PathOnly(path, digest) == Uuid5[path \o "::"]
GenerateDocId(path, digest) == Uuid5[path \o "::" \o digest]

\* a file of the tree; access "unreadable": open() for reading fails
NoScanFile == [content |-> <<>>, access |-> "absent"]
IsFile(file) == file.access # "absent"

\* ScanConfig (cache_path and output_path are fixed)
ScanConfigs ==
    {[paths |-> <<"r">>, max_size_bytes |-> 100, sample_bytes |-> 100],
     [paths |-> <<"r", "r/s">>, max_size_bytes |-> 100, sample_bytes |-> 100],
     [paths |-> <<"x", "r">>, max_size_bytes |-> 12, sample_bytes |-> 6],
     [paths |-> <<"r">>, max_size_bytes |-> 12, sample_bytes |-> 100]}

\* if size > config.max_size_bytes: return None
TooLarge(size, max_size_bytes) == size > max_size_bytes

\* a future of _scan_file(path, config): `at` is the next read of the file
\* ("stat", "hash", "sample", "csv") or "done"; size, digest and
\* sample_text are the locals read so far; result is raised, or the list
\* of the Document (empty for None)
Future(path) ==
    [path |-> path, at |-> "stat", size |-> 0, digest |-> "",
     sample_text |-> <<>>, result |-> [raised |-> FALSE, docs |-> <<>>]]

\* _scan_file has returned or raised: its locals are gone
Returned(path, failed, docs) ==
    [Future(path) EXCEPT !.at = "done",
                         !.result = [raised |-> failed, docs |-> docs]]

\* FileDocument(...) of _scan_file.  The fields name, mtime, mimetype and
\* dir_hint are left out.
FileDocument(path, size, digest, sample_text, csv_header) ==
    [doc_id |-> GenerateDocId(path, digest),
     path |-> path,
     ext |-> Suffix(path),
     size |-> size,
     blake3 |-> digest,
     imports_first |-> ExtractImports(sample_text),
     top_comment |-> ExtractTopComment(sample_text),
     md_headings |-> ExtractMarkdownHeadings(sample_text),
     json_root_keys |-> ExtractJsonKeys(sample_text),
     csv_header |-> csv_header,
     sample_text |-> sample_text]

\* _scan_file, from one read of the file to the next; `file` is the file as
\* it is at this read.  stat: None for a file that is gone or too large.
\* compute_blake3: open() raises for a file that is gone or unreadable, and
\* nothing catches it.  _read_text_sample and _extract_csv_header catch
\* OSError.
ScanFile(fut, file, config) ==
    CASE fut.at = "stat" ->
           IF ~IsFile(file) \/ TooLarge(Len(file.content), config.max_size_bytes)
           THEN Returned(fut.path, FALSE, <<>>)
           ELSE [fut EXCEPT !.at = "hash", !.size = Len(file.content)]
      [] fut.at = "hash" ->
           IF ~IsFile(file) \/ file.access = "unreadable"
           THEN Returned(fut.path, TRUE, <<>>)
           ELSE [fut EXCEPT !.at = "sample",
                            !.digest = ComputeBlake3(file.content)]
      [] fut.at = "sample" ->
           LET sample_text == ReadTextSample(file, config.sample_bytes)
           IN IF Suffix(fut.path) = ".csv"
              THEN [fut EXCEPT !.at = "csv", !.sample_text = sample_text]
              ELSE Returned(fut.path, FALSE,
                            <<FileDocument(fut.path, fut.size, fut.digest,
                                           sample_text, <<>>)>>)
      [] fut.at = "csv" ->
           Returned(fut.path, FALSE,
                    <<FileDocument(fut.path, fut.size, fut.digest,
                                   fut.sample_text, ExtractCsvHeader(file))>>)

\* the files scan submits for one root that exists: the paths below it
\* that are files, in the order rglob lists them
Submitted(files, root, order) ==
    SelectSeq(Under(root, order), LAMBDA p : IsFile(files[p]))

\* the loop over the futures: future.result() raises what _scan_file raised
RECURSIVE Collect(_)
Collect(results) ==
    IF results = <<>> THEN [raised |-> FALSE, documents |-> <<>>]
    ELSE IF Head(results).raised THEN [raised |-> TRUE, documents |-> <<>>]
    ELSE LET rest == Collect(Tail(results))
         IN IF rest.raised THEN rest
            ELSE [raised |-> FALSE,
                  documents |-> Head(results).docs \o rest.documents]

\* store_documents: INSERT OR REPLACE of every document, in turn
RECURSIVE StoreDocuments(_, _)
StoreDocuments_Insert(rows, documents) ==
    rows \o [k \in 1..Len(documents) |->
                [doc_id |-> documents[k].doc_id, payload |-> documents[k]]]
StoreDocuments(rows, documents) ==
    IF documents = <<>> THEN rows
    ELSE LET doc == Head(documents)
             kept == SelectSeq(rows, LAMBDA r : r.doc_id # doc.doc_id)
         IN StoreDocuments(
                Append(kept, [doc_id |-> doc.doc_id, payload |-> doc]),
                Tail(documents))

NoConfig == [paths |-> <<>>, max_size_bytes |-> 0, sample_bytes |-> 0]
NoRun == [config |-> NoConfig, order |-> <<>>, root |-> 0,
          files |-> [p \in ScanPathSet |-> NoScanFile], t0 |-> 0]

ScanInit ==
    /\ sfs = [p \in ScanPathSet |->
                [content |-> IF p = "r/s/b.py" THEN KPy ELSE KCsv,
                 access |-> "ok"]]
    /\ store = <<>>
    /\ scan_pc = "idle"
    /\ scan_run = NoRun
    /\ scan_futures = <<>>
    /\ scan_out = [config |-> NoConfig, raised |-> FALSE, documents |-> <<>>,
                   files |-> NoRun.files, t0 |-> 0, t1 |-> 0]
    /\ export = <<>>
    /\ seen = {}
    /\ scans = 0
    /\ changes = 0

\* ==================================================== concurrent executors
Invocations == {"A", "B"}

\* plans handed to the two invocations together
MaxConcWork == 3

\* the plan lists of the two invocations: MaxConcWork plans in all
ConcurrentWork ==
    {w \in [Invocations -> PlanLists(MaxConcWork)] :
        Len(w["A"]) + Len(w["B"]) <= MaxConcWork}

\* no open file.  An open file is known by the path it is at now (another
\* process may rename it); a file that lost its last name keeps the
\* content it had
NoFd == [path |-> NoFile, content |-> NoFile]

\* the content of the file behind fd
FdContent(f, fd) == IF fd.path # NoFile THEN f[fd.path] ELSE fd.content

\* the open files of every invocation after os.rename(x, y) on the
\* files f: the file that was at y has no name left, the file at x is at y
FdsAfterRename(invs, f, x, y) ==
    [p \in DOMAIN invs |->
        [invs[p] EXCEPT
            !.fsrc = IF @.path = y THEN [path |-> NoFile, content |-> f[y]]
                     ELSE IF @.path = x THEN [path |-> y, content |-> NoFile]
                     ELSE @,
            !.fdst = IF @ = y THEN NoFile ELSE IF @ = x THEN y ELSE @]]

\* ... and after os.unlink(x)
FdsAfterUnlink(invs, f, x) ==
    [p \in DOMAIN invs |->
        [invs[p] EXCEPT
            !.fsrc = IF @.path = x THEN [path |-> NoFile, content |-> f[x]]
                     ELSE @,
            !.fdst = IF @ = x THEN NoFile ELSE @]]

\* the two files in "s" are of unequal length
ConcInit ==
    /\ shared_fs = [p \in Paths |-> IF p = "s/a" THEN "aaa"
                                    ELSE IF p = "s/b" THEN "bb" ELSE NoFile]
    /\ shared_dirs = {"s"}
    /\ shared_journal = <<>>
    /\ invocation = [p \in Invocations |->
                        [pc |-> "idle", plans |-> <<>>, mode |-> "move",
                         i |-> 1, at |-> "exists", entries |-> <<>>,
                         fsrc |-> NoFd, fdst |-> NoFile, offset |-> 0,
                         written |-> 0]]
    /\ xdev = FALSE
    /\ performed = <<>>
    /\ journal_ops = <<>>

\* ============================================================ TaskReflector
\* A JSON value used as a task id or as a dep is a pair <<type, text>>:
\* the string "a" is <<"str", "a">>, the number 1 is <<"int", "1">>.
\* Two values are equal in Python when both parts are equal.
PyStr(value) == value[2]
JsonStr(text) == <<"str", text>>

\* graph[task_id] = [str(dep) for dep in deps], in the order of the tasks
TaskGraph(tasks) ==
    [k \in 1..Len(tasks) |->
        [id |-> PyStr(tasks[k].id),
         deps |-> [d \in 1..Len(tasks[k].deps) |-> PyStr(tasks[k].deps[d])]]]

\* graph.get(node, [])
GraphGet(graph, node) ==
    IF \E k \in 1..Len(graph) : graph[k].id = node
    THEN graph[CHOOSE k \in 1..Len(graph) : graph[k].id = node].deps
    ELSE <<>>

\* dfs(node) of detect_cycles; st holds cycles, visited, stack and path
RECURSIVE Dfs(_, _, _)
RECURSIVE DfsNeighbors(_, _, _, _)
Dfs_VisitedFirst(graph, node, st) ==
    IF node \in st.visited
    THEN st
    ELSE LET entered == [st EXCEPT !.visited = @ \cup {node},
                                   !.stack = @ \cup {node},
                                   !.path = Append(@, node)]
             left == DfsNeighbors(graph, GraphGet(graph, node), 1, entered)
         IN [left EXCEPT !.stack = @ \ {node},
                         !.path = SubSeq(@, 1, Len(@) - 1)]
Dfs(graph, node, st) ==
    IF node \in st.stack
    THEN [st EXCEPT !.cycles =
             Append(@, Append(SubSeq(st.path, IndexOf(st.path, node),
                                     Len(st.path)), node))]
    ELSE IF node \in st.visited
    THEN st
    ELSE LET entered == [st EXCEPT !.visited = @ \cup {node},
                                   !.stack = @ \cup {node},
                                   !.path = Append(@, node)]
             left == DfsNeighbors(graph, GraphGet(graph, node), 1, entered)
         IN [left EXCEPT !.stack = @ \ {node},
                         !.path = SubSeq(@, 1, Len(@) - 1)]
DfsNeighbors(graph, neighbors, k, st) ==
    IF k > Len(neighbors)
    THEN st
    ELSE DfsNeighbors(graph, neighbors, k + 1, Dfs(graph, neighbors[k], st))

\* for task_id in graph: if task_id not in visited: dfs(task_id)
RECURSIVE DfsRoots(_, _, _)
DfsRoots(graph, k, st) ==
    IF k > Len(graph)
    THEN st
    ELSE DfsRoots(graph, k + 1,
                  IF graph[k].id \in st.visited
                  THEN st
                  ELSE Dfs(graph, graph[k].id, st))

DetectCycles(tasks) ==
    DfsRoots(TaskGraph(tasks), 1,
             [cycles |-> <<>>, visited |-> {}, stack |-> {}, path |-> <<>>])
        .cycles

\* the inner loop of topological_sort for the id taken from the queue:
\* every task that lists it among its deps loses one from its in-degree
RECURSIVE Relax(_, _, _, _)
Relax(graph, current, k, st) ==
    IF k > Len(graph)
    THEN st
    ELSE IF Occurs(graph[k].deps, current)
    THEN LET degree == st.in_degree[k] - 1
         IN Relax(graph, current, k + 1,
                  [in_degree |-> [st.in_degree EXCEPT ![k] = degree],
                   queue |-> IF degree = 0
                             THEN Append(st.queue, graph[k].id)
                             ELSE st.queue])
    ELSE Relax(graph, current, k + 1, st)

\* while queue: current = queue.popleft(); order.append(current); ...
RECURSIVE TopoLoop(_, _, _, _)
TopoLoop(graph, in_degree, queue, sorted) ==
    IF queue = <<>>
    THEN sorted
    ELSE LET st == Relax(graph, Head(queue), 1,
                         [in_degree |-> in_degree, queue |-> Tail(queue)])
         IN TopoLoop(graph, st.in_degree, st.queue,
                     Append(sorted, Head(queue)))

\* in_degree[task_id] = len(deps)
InDegree(graph) == [k \in 1..Len(graph) |-> Len(graph[k].deps)]

TopologicalSort(tasks) ==
    LET graph == TaskGraph(tasks)
        in_degree == InDegree(graph)
        zero == SelectSeq([k \in 1..Len(graph) |-> k],
                          LAMBDA k : in_degree[k] = 0)
    IN TopoLoop(graph, in_degree,
                [k \in 1..Len(zero) |-> graph[zero[k]].id], <<>>)

\* configuration defaults, in hundredths
BaseComplexity == 100        \* type_complexity["code"]
DepWeight == 20
DependentWeight == 10
ClampMin == 80
ClampMax == 300

\* calculate_complexity for a task without type and title, in hundredths
CalculateComplexity(task, all_tasks) ==
    LET dependents ==
            Cardinality({k \in 1..Len(all_tasks) :
                            Occurs(all_tasks[k].deps, task.id)})
        total == BaseComplexity + DepWeight * Len(task.deps)
                 + DependentWeight * dependents
    IN IF total < ClampMin THEN ClampMin
       ELSE IF total > ClampMax THEN ClampMax
       ELSE total

\* the loop of reflect over ordered_ids: the first task whose id equals
\* the (string) id gets the index as its order; an id no task equals is
\* passed over
ReflectedTasks(tasks, ordered_ids) ==
    LET found == SelectSeq([k \in 1..Len(ordered_ids) |-> k],
                    LAMBDA k : \E c \in 1..Len(tasks) :
                                  tasks[c].id = JsonStr(ordered_ids[k]))
    IN [n \in 1..Len(found) |->
          LET task == tasks[CHOOSE c \in 1..Len(tasks) :
                              /\ tasks[c].id = JsonStr(ordered_ids[found[n]])
                              /\ \A b \in 1..(c - 1) :
                                    tasks[b].id # JsonStr(ordered_ids[found[n]])]
          IN [id |-> task.id, deps |-> task.deps, order |-> found[n] - 1,
              complexity |-> CalculateComplexity(task, tasks)]]

\* reflect(tasks_data)
ReflectResult(tasks) ==
    LET cycles == DetectCycles(tasks)
        topo_order == TopologicalSort(tasks)
        all_ids == [k \in 1..Len(tasks) |-> PyStr(tasks[k].id)]
        missing_ids == SelectSeq(all_ids, LAMBDA x : ~Occurs(topo_order, x))
    IN [tasks |-> ReflectedTasks(tasks, topo_order \o missing_ids),
        meta |-> [topo_order |-> topo_order,
                  cycles_detected |-> Len(cycles),
                  unordered_tasks |-> missing_ids],
        cycles |-> cycles,
        topo_order |-> topo_order]

\* the inputs of the model: task lists with different ids, two of them
\* strings and one a number; a deps list names tasks of the list, the
\* task itself, the unknown id "z", or one id twice
TaskIds == {<<"str", "a">>, <<"str", "b">>, <<"int", "1">>}
DepsLists ==
    {<<>>, <<JsonStr("a")>>, <<JsonStr("b")>>, <<<<"int", "1">>>>,
     <<JsonStr("z")>>, <<JsonStr("a"), JsonStr("b")>>,
     <<JsonStr("a"), JsonStr("a")>>, <<JsonStr("b"), <<"int", "1">>>>,
     <<<<"int", "1">>, JsonStr("a")>>}
TaskLists ==
    UNION {{t \in [1..n -> [id : TaskIds, deps : DepsLists]] :
               \A a, b \in 1..n : a # b => t[a].id # t[b].id} :
           n \in 0..Cardinality(TaskIds)}

NoResult ==
    [tasks |-> <<>>,
     meta |-> [topo_order |-> <<>>, cycles_detected |-> 0,
               unordered_tasks |-> <<>>],
     cycles |-> <<>>, topo_order |-> <<>>]

ReflectInit ==
    /\ reflect_in = <<>>
    /\ reflect_out = NoResult

\* ============================================================= TaskExecutor
MaxRuns == 2     \* execute_sequential / execute_parallel calls in a process

\* Task.is_ready
IsReady_AnyDep(task, completed) ==
    Len(task.deps) = 0
    \/ \E d \in 1..Len(task.deps) : task.deps[d] \in completed
IsReady(task, completed) ==
    Len(task.deps) = 0
    \/ \A d \in 1..Len(task.deps) : task.deps[d] \in completed

\* Task.can_run_parallel
CanRunParallel(task) == task.type \in {"config", "cli", "doc"}

Strategies == {"dependency", "complexity", "efficiency"}

\* the sort key of sort_tasks, compared as Python compares tuples
KeyOf(task, strategy) ==
    IF strategy = "dependency" THEN <<task.order>>
    ELSE IF strategy = "complexity" THEN <<0 - task.complexity, task.order>>
    ELSE <<IF CanRunParallel(task) THEN 0 ELSE 1,
           0 - task.complexity, task.order>>

TupleLess(a, b) ==
    \E k \in 1..Len(a) :
        /\ a[k] < b[k]
        /\ \A n \in 1..(k - 1) : a[n] = b[n]

\* sorted(tasks, key=...): stable
SortTasks(tasks, strategy) ==
    LET before(x, y) ==
            \/ TupleLess(KeyOf(tasks[x], strategy), KeyOf(tasks[y], strategy))
            \/ KeyOf(tasks[x], strategy) = KeyOf(tasks[y], strategy) /\ x < y
        rank(x) == Cardinality({y \in 1..Len(tasks) : before(y, x)})
    IN [n \in 1..Len(tasks) |->
          tasks[CHOOSE x \in 1..Len(tasks) : rank(x) = n - 1]]

PTask(id, type, deps, complexity, order) ==
    [id |-> id, type |-> type, deps |-> deps, complexity |-> complexity,
     order |-> order]

\* the task lists of the model (complexity in hundredths): a chain, a
\* fan-out, order values against the deps, a dep on an unknown id, a
\* cycle, and a join
PriorityTaskLists ==
    {<<PTask("a", "code", <<>>, 100, 0), PTask("b", "config", <<"a">>, 120, 1),
       PTask("c", "code", <<"b">>, 150, 2)>>,
     <<PTask("a", "config", <<>>, 100, 0), PTask("b", "cli", <<"a">>, 120, 1),
       PTask("c", "code", <<"a">>, 120, 2)>>,
     <<PTask("b", "code", <<"a">>, 120, 0), PTask("a", "code", <<>>, 100, 1)>>,
     <<PTask("a", "doc", <<>>, 100, 0), PTask("b", "code", <<"z">>, 120, 1)>>,
     <<PTask("a", "code", <<"b">>, 120, 0), PTask("b", "code", <<"a">>, 120, 1),
       PTask("c", "config", <<>>, 100, 2)>>,
     <<PTask("a", "code", <<>>, 100, 0), PTask("b", "config", <<>>, 100, 1),
       PTask("c", "code", <<"a", "b">>, 140, 2)>>}

WorkerCounts == {1, 2}

PrioInit ==
    /\ completed_tasks = {}
    /\ failed_tasks = {}
    /\ sorted_tasks = <<>>
    /\ future_to_task = <<>>
    /\ prio_results = <<>>
    /\ prio_pc = "idle"
    /\ prio_idx = 1
    /\ max_workers = 1
    /\ started = <<>>
    /\ runs = 0

\* a task is handed to execute_task
Start(task) == Append(started, [task |-> task, completed |-> completed_tasks])

\* execute_task's bookkeeping for the outcome of the command
Completed(task, success) ==
    IF success THEN completed_tasks \cup {task.id} ELSE completed_tasks
Failed(task, success) ==
    IF success THEN failed_tasks ELSE failed_tasks \cup {task.id}

\* as_completed(future_to_task): the futures that are finished when it is
\* called come first, in the iteration order of a set of Future objects,
\* which is any order: the turns a call can give them
FinishedOrders(futures) ==
    LET finished == {k \in 1..Len(futures) : futures[k].done > 0}
    IN {order \in [finished -> 1..Cardinality(finished)] :
           \A a, b \in finished : order[a] = order[b] => a = b}

\* a future that finishes while as_completed waits is handed out after
\* those that wait to be handed out
LastTurn(futures) ==
    1 + Cardinality({k \in 1..Len(futures) : futures[k].turn > 0})

\* the future as_completed hands out next
NextFuture(futures) ==
    CHOOSE k \in 1..Len(futures) :
        /\ futures[k].turn > 0
        /\ \A x \in 1..Len(futures) :
              futures[x].turn > 0 => futures[k].turn <= futures[x].turn

\* the body of the as_completed loop for one future: the result is
\* appended; after a failure the tasks that list the failed id among
\* their deps leave sorted_tasks
CollectLoop(f, st) ==
    [results |-> Append(st.results,
                        [task_id |-> f.task.id, success |-> f.state = "ok"]),
     sorted_tasks |->
         IF f.state = "ok"
         THEN st.sorted_tasks
         ELSE SelectSeq(st.sorted_tasks,
                        LAMBDA t : ~Occurs(t.deps, f.task.id))]

\* ========================================================= ParallelExecutor
\* Task.can_parallel
CanParallel(task) == task.type \in {"config", "cli", "doc", "test"}

KnownId(tasks, task_id) == \E k \in 1..Len(tasks) : tasks[k].id = task_id

\* task_dict[task_id]
TaskDict(tasks, task_id) ==
    tasks[CHOOSE k \in 1..Len(tasks) :
             /\ tasks[k].id = task_id
             /\ \A n \in (k + 1)..Len(tasks) : tasks[n].id # task_id]

\* get_dependency_depth raises KeyError: it reaches an id of no task
RECURSIVE DepthRaises(_, _, _)
DepthRaises(tasks, task_id, visited) ==
    /\ task_id \notin visited
    /\ \/ ~KnownId(tasks, task_id)
       \/ LET deps == TaskDict(tasks, task_id).deps
          IN \E d \in 1..Len(deps) :
                 DepthRaises(tasks, deps[d], visited \cup {task_id})

Max(numbers) == CHOOSE x \in numbers : \A y \in numbers : y <= x

\* get_dependency_depth(task_id, visited)
RECURSIVE GetDependencyDepth(_, _, _)
GetDependencyDepth(tasks, task_id, visited) ==
    IF task_id \in visited
    THEN 0
    ELSE LET deps == TaskDict(tasks, task_id).deps
         IN IF deps = <<>>
            THEN 0
            ELSE 1 + Max({GetDependencyDepth(tasks, deps[d],
                                             visited \cup {task_id}) :
                          d \in 1..Len(deps)})

\* _get_dependency_levels: the levels in the order in which the loop over
\* the tasks first meets them, each with its tasks in input order
GetDependencyLevels(tasks) ==
    LET depth == [k \in 1..Len(tasks) |->
                     GetDependencyDepth(tasks, tasks[k].id, {})]
        first == SelectSeq([k \in 1..Len(tasks) |-> k],
                     LAMBDA k : \A n \in 1..(k - 1) : depth[n] # depth[k])
    IN [n \in 1..Len(first) |->
          [level |-> depth[first[n]],
           tasks |-> [x \in 1..Cardinality({k \in 1..Len(tasks) :
                                               depth[k] = depth[first[n]]}) |->
                        tasks[CHOOSE k \in 1..Len(tasks) :
                            /\ depth[k] = depth[first[n]]
                            /\ Cardinality({y \in 1..(k - 1) :
                                   depth[y] = depth[first[n]]}) = x - 1]]]]

\* the groups made of one level
LevelGroups(level) ==
    IF Len(level.tasks) > 1
    THEN LET parallel_tasks == SelectSeq(level.tasks, CanParallel)
             sequential_tasks ==
                 SelectSeq(level.tasks, LAMBDA t : ~CanParallel(t))
         IN (IF parallel_tasks = <<>>
             THEN <<>>
             ELSE <<[id |-> "level_" \o ToString(level.level) \o "_parallel",
                     tasks |-> parallel_tasks]>>)
            \o [k \in 1..Len(sequential_tasks) |->
                  [id |-> "sequential_" \o sequential_tasks[k].id,
                   tasks |-> <<sequential_tasks[k]>>]]
    ELSE <<[id |-> "single_" \o level.tasks[1].id, tasks |-> level.tasks]>>

RECURSIVE Flatten(_)
Flatten(lists) ==
    IF lists = <<>> THEN <<>> ELSE Head(lists) \o Flatten(Tail(lists))

\* identify_parallel_groups, for a task list on which it does not raise
IdentifyParallelGroups(tasks) ==
    LET levels == GetDependencyLevels(tasks)
    IN Flatten([n \in 1..Len(levels) |-> LevelGroups(levels[n])])

IdentifyRaises(tasks) ==
    \E k \in 1..Len(tasks) : DepthRaises(tasks, tasks[k].id, {})

\* the task lists of the model, each in every order: two levels with
\* several tasks, a chain, a cycle of two tasks that can run in parallel,
\* a dep on an unknown id, a join, and two groups of two tasks each
GroupTaskSets ==
    {<<PTask("a", "config", <<>>, 100, 0), PTask("b", "doc", <<>>, 100, 1),
       PTask("c", "test", <<"a">>, 120, 2), PTask("d", "code", <<"a">>, 120, 3)>>,
     <<PTask("a", "code", <<>>, 100, 0), PTask("b", "config", <<"a">>, 120, 1),
       PTask("c", "cli", <<"b">>, 140, 2)>>,
     <<PTask("a", "config", <<"b">>, 120, 0), PTask("b", "cli", <<"a">>, 120, 1),
       PTask("c", "code", <<>>, 100, 2)>>,
     <<PTask("a", "config", <<>>, 100, 0), PTask("b", "cli", <<"z">>, 120, 1)>>,
     <<PTask("a", "code", <<>>, 100, 0), PTask("b", "code", <<>>, 100, 1),
       PTask("c", "config", <<"a", "b">>, 140, 2),
       PTask("d", "cli", <<"a">>, 120, 3)>>,
     <<PTask("a", "config", <<>>, 100, 0), PTask("b", "config", <<>>, 100, 1),
       PTask("c", "config", <<"b">>, 120, 2),
       PTask("d", "config", <<"b">>, 120, 3)>>}
GroupTaskLists == UNION {Orderings(s) : s \in GroupTaskSets}

GroupInit ==
    /\ group_tasks = <<>>
    /\ parallel_groups = <<>>
    /\ group_completed = {}
    /\ group_failed = {}
    /\ group_pc = "idle"
    /\ group_i = 1
    /\ group_idx = 1
    /\ group_futures = <<>>
    /\ all_results = <<>>
    /\ pool_size = 1
    /\ group_started = <<>>

\* the futures of group n that as_completed has not handed out
Uncollected(n) ==
    {k \in 1..Len(group_futures) :
        /\ group_futures[k].group = n
        /\ ~group_futures[k].collected}

\* as_completed(future_to_task) for group n: the turns a call can give the
\* futures that are finished when it is called
GroupFinishedOrders(n) ==
    LET finished == {k \in Uncollected(n) : group_futures[k].done > 0}
    IN {order \in [finished -> 1..Cardinality(finished)] :
           \A a, b \in finished : order[a] = order[b] => a = b}

\* ------------------------------------------------------ AdvancedFileHandler
\* bounds of the watchdog exploration
MaxClock == 2
MaxCalls == 3

\* WatchdogConfig defaults
IncludeExtensions == {".md", ".json", ".yaml", ".yml"}
ExcludedSuffixes == {".tmp", ".log"}
\* max_file_size, scaled to the contents of the model
MaxFileSize == 1

WatchPaths == {"tasks.json", "PRD.md", "build.log"}
\* pathlib.Path(p).suffix.lower()
PathSuffix(path) ==
    CASE path = "tasks.json" -> ".json"
      [] path = "PRD.md" -> ".md"
      [] path = "build.log" -> ".log"

\* what a path can hold: nothing, or some bytes
Absent == [exists |-> FALSE, data |-> <<>>]
FileOf(data) == [exists |-> TRUE, data |-> data]
WatchContents == {Absent, FileOf(<<1>>), FileOf(<<2>>), FileOf(<<1, 2>>)}
\* what is written to each path
WritesTo(path) ==
    CASE path = "tasks.json" -> WatchContents
      [] path = "PRD.md" -> {Absent, FileOf(<<1>>), FileOf(<<2>>)}
      [] path = "build.log" -> {Absent, FileOf(<<1>>)}
EmptyDict == [k \in {} |-> 0]
DebounceTimes == {1, 2}
NoWatchConfig == [debounce_time |-> 0, hash_check |-> FALSE, built |-> FALSE]
NoCall == [path |-> "", at |-> 0, previous |-> -1, result |-> FALSE,
           pc |-> "done"]
\* what _calculate_file_hash returns when the file cannot be read: the
\* str ''
NoHash == <<"", <<>>>>

\* should_process_file: an existing regular file with an included
\* extension, matched by no exclude pattern, not larger than max_file_size
ShouldProcessFile(files, path) ==
    /\ files[path].exists
    /\ PathSuffix(path) \in IncludeExtensions
    /\ PathSuffix(path) \notin ExcludedSuffixes
    /\ Len(files[path].data) <= MaxFileSize

\* _calculate_file_hash: the SHA-256 digest of the bytes the file holds
\* now, whatever their number; '' when the file cannot be opened
CalculateFileHash(files, path) ==
    IF files[path].exists THEN <<"sha256", files[path].data>> ELSE NoHash

\* the debounce test of should_trigger_reflection
Debounced_Never(triggered, path, now, debounce_time) == FALSE

Debounced(triggered, path, now, debounce_time) ==
    /\ path \in DOMAIN triggered
    /\ now - triggered[path] < debounce_time

\* the hash test of should_trigger_reflection
SameHash(hashes, files, path) ==
    /\ path \in DOMAIN hashes
    /\ hashes[path] = CalculateFileHash(files, path)

\* d[key] = value
DictSet(d, key, value) ==
    [k \in DOMAIN d \cup {key} |-> IF k = key THEN value ELSE d[k]]

WatchInit ==
    /\ watch_config = NoWatchConfig
    /\ watch_fs = [p \in WatchPaths |-> Absent]
    /\ watch_clock = 0
    /\ file_hashes = EmptyDict
    /\ last_triggered = EmptyDict
    /\ skipped_events = 0
    /\ watch_call = NoCall
    /\ watch_calls = 0
    /\ trigger_content = EmptyDict

\* ------------------------------------------------------------ AutoReflector
\* trigger_reflection calls of one process
MaxTriggers == 3

\* the threads that call trigger_reflection: the observer thread of the
\* file watcher or the scheduler loop, and a request thread of the webhook
\* server
Callers == {"file_watcher", "webhook"}

\* how the tasks_reflect.py subprocess of _execute_reflection ends
Runs == {"zero", "nonzero", "timeout", "error"}

\* _execute_reflection: True for return code 0, False for another return
\* code, a timeout and any other exception
ExecuteReflection_TimeoutPasses(run) == run \in {"zero", "timeout"}

ExecuteReflection(run) == run = "zero"

NotCalling == [pc |-> "idle", call |-> 0, run |-> "zero", success |-> FALSE]

AutoInit ==
    /\ total_reflections = 0
    /\ successful_reflections = 0
    /\ failed_reflections = 0
    /\ reflection_history = <<>>
    /\ auto_calls = [c \in Callers |-> NotCalling]
    /\ auto_started = 0
    /\ auto_returns = <<>>

\* ------------------------------------------------------------------ Init
Init ==
    \* a populated source directory "s" and no target directory "t" yet;
    \* a file's content is named after the path it starts at
    /\ fs = [p \in Paths |-> IF Parent(p) = "s" THEN p ELSE NoFile]
    /\ dirs = {Parent(p) : p \in {q \in Paths : fs[q] # NoFile}}
    /\ journal = <<>>
    /\ tail = <<>>
    /\ journal_exists = FALSE
    /\ pc = "idle"
    /\ plans = <<>>
    /\ mode = "move"
    /\ i = 1
    /\ entries = <<>>
    /\ rb = <<>>
    /\ j = 1
    /\ origin = [p \in Paths |-> NoFile]
    /\ moved = {}
    /\ jlen0 = 0
    /\ rb_fs0 = fs
    /\ rb_dirs0 = dirs
    /\ last = "init"
    /\ prev = "init"
    /\ work = 0
    /\ ops = 0
    /\ PlanInit
    /\ RulesInit
    /\ ClusterInit
    /\ ScanInit
    /\ ConcInit
    /\ ReflectInit
    /\ PrioInit
    /\ GroupInit
    /\ WatchInit
    /\ AutoInit

\* --------------------------------------------------------- execute_plans
ExecStart(ps, m) ==
    /\ pc = "idle"
    /\ ops < MaxOps
    /\ work + Len(ps) <= MaxWork
    /\ pc' = "exec"
    /\ plans' = ps
    /\ mode' = m
    /\ i' = 1
    /\ entries' = <<>>
    /\ origin' = [p \in Paths |-> IF Exists(fs, p) THEN p ELSE NoFile]
    /\ moved' = {}
    /\ jlen0' = Len(journal)
    /\ work' = work + Len(ps)
    /\ ops' = ops + 1
    /\ UNCHANGED <<fs, dirs, journal, tail, journal_exists, rb, j, rb_fs0,
                   rb_dirs0, last, prev>>
    /\ UNCHANGED <<plan_vars, rules_vars, cluster_vars, scan_vars, conc_vars,
                   reflect_vars, prio_vars, group_vars, watch_vars,
                   auto_vars>>

ExecStep ==
    /\ pc = "exec"
    /\ i <= Len(plans)
    /\ LET plan == plans[i]
           r == ExecOne(fs, dirs, plan, mode)
           did == r.entry.status # "missing"
       IN /\ fs' = r.fs
          /\ dirs' = r.dirs
          /\ entries' = Append(entries, r.entry)
          /\ origin' = IF ~did THEN origin
                       ELSE IF mode = "move"
                       THEN ShutilMove(origin, plan.source_path, plan.target_path)
                       ELSE ShutilCopy2(origin, plan.source_path, plan.target_path)
          /\ moved' = IF did /\ mode = "move"
                      THEN moved \cup ({origin[plan.source_path]} \ {NoFile})
                      ELSE moved
    /\ i' = i + 1
    /\ UNCHANGED <<journal, tail, journal_exists, pc, plans, mode, rb, j,
                   jlen0, rb_fs0, rb_dirs0, last, prev, work, ops>>
    /\ UNCHANGED <<plan_vars, rules_vars, cluster_vars, scan_vars, conc_vars,
                   reflect_vars, prio_vars, group_vars, watch_vars,
                   auto_vars>>

\* the loop is over: append_jsonl(journal_path, entries), then return
ExecAppend ==
    /\ pc = "exec"
    /\ i > Len(plans)
    /\ LET w == AppendJsonl(journal, tail, entries)
       IN /\ journal' = w.lines
          /\ tail' = w.tail
    /\ journal_exists' = TRUE
    /\ pc' = "idle"
    /\ prev' = last
    /\ last' = "exec_done"
    /\ UNCHANGED <<fs, dirs, plans, mode, i, entries, rb, j, origin, moved,
                   jlen0, rb_fs0, rb_dirs0, work, ops>>
    /\ UNCHANGED <<plan_vars, rules_vars, cluster_vars, scan_vars, conc_vars,
                   reflect_vars, prio_vars, group_vars, watch_vars,
                   auto_vars>>

\* execute_plans stops inside the loop or before append_jsonl opened the
\* file (the process is killed, or shutil raises OSError): the list
\* `entries` lives in memory only and is lost.  The variable keeps its
\* value so that the claims can say what was lost.  An iteration is
\* ensure_directory followed by shutil.move or copy2.  With "made" the stop
\* falls between the two: the directory of the target is there and the
\* file is where it was.  With "opened" it falls inside shutil.copy2, after
\* copyfile opened the target for writing: the target holds the first n
\* bytes of the source, none or some but not all, whatever was there
\* before.  (All bytes copied and no row yet is ExecStep followed by a stop
\* in the loop.)  shutil.move is one rename, unless source and target lie
\* on two filesystems: then it is copy2 followed by os.unlink, and a stop
\* inside it leaves the source where it is and at the target none, some or
\* all of its bytes.
ExecCrash(at, n) ==
    /\ pc = "exec"
    /\ at # "loop" => /\ i <= Len(plans)
                      /\ Exists(fs, plans[i].source_path)
    /\ IF at = "opened"
       THEN IF mode = "copy"
            THEN n = 0 \/ n < Len(fs[plans[i].source_path])
            ELSE /\ CanCrossDevice(plans[i].source_path,
                                   plans[i].target_path)
                 /\ n <= Len(fs[plans[i].source_path])
       ELSE n = 0
    /\ dirs' = IF at = "loop" THEN dirs
               ELSE EnsureDirectory(dirs, Parent(plans[i].target_path))
    /\ fs' = IF at = "opened"
             THEN [fs EXCEPT ![plans[i].target_path] =
                                 FirstBytes(fs[plans[i].source_path], n)]
             ELSE fs
    /\ origin' = IF at = "opened"
                 THEN [origin EXCEPT ![plans[i].target_path] = NoFile]
                 ELSE origin
    /\ pc' = "idle"
    /\ prev' = last
    /\ last' = "crashed"
    /\ UNCHANGED <<journal, tail, journal_exists, plans, mode, i,
                   entries, rb, j, moved, jlen0, rb_fs0, rb_dirs0,
                   work, ops>>
    /\ UNCHANGED <<plan_vars, rules_vars, cluster_vars, scan_vars, conc_vars,
                   reflect_vars, prio_vars, group_vars, watch_vars,
                   auto_vars>>

\* execute_plans stops inside append_jsonl, after open(path, "a") made the
\* file: what was flushed is on disk, k complete rows and then nothing
\* ("line"), a part of row k+1 ("part"), or the JSON text of row k+1
\* without its line terminator ("row").  An exception in the loop closes
\* the file and leaves what was written so far.
ExecCrashInAppend(k, at) ==
    /\ pc = "exec"
    /\ i > Len(plans)
    /\ k <= Len(entries)
    /\ at # "line" => k < Len(entries)
    /\ LET w == AppendJsonl(journal, tail, SubSeq(entries, 1, k))
       IN /\ journal' = w.lines
          /\ tail' = IF at = "line" THEN w.tail
                     ELSE StoppedWrite(w.tail, entries[k + 1], at = "row")
    /\ journal_exists' = TRUE
    /\ pc' = "idle"
    /\ prev' = last
    /\ last' = "crashed"
    /\ UNCHANGED <<fs, dirs, plans, mode, i, entries, rb, j, origin, moved,
                   jlen0, rb_fs0, rb_dirs0, work, ops>>
    /\ UNCHANGED <<plan_vars, rules_vars, cluster_vars, scan_vars, conc_vars,
                   reflect_vars, prio_vars, group_vars, watch_vars,
                   auto_vars>>

\* ------------------------------------------------- rollback_from_journal
RollbackStart ==
    /\ pc = "idle"
    /\ ops < MaxOps
    /\ ops' = ops + 1
    /\ rb_fs0' = fs
    /\ rb_dirs0' = dirs
    /\ LET r == ReadJsonl(journal_exists, journal, tail)
       IN IF r.raised
          THEN /\ prev' = last
               /\ last' = "rb_raised"
               /\ UNCHANGED <<pc, rb, j>>
          ELSE IF r.entries = <<>>
          THEN /\ prev' = last
               /\ last' = "rb_nodata"
               /\ UNCHANGED <<pc, rb, j>>
          ELSE /\ pc' = "rollback"
               /\ rb' = Reversed(r.entries)
               /\ j' = 1
               /\ UNCHANGED <<last, prev>>
    /\ UNCHANGED <<fs, dirs, journal, tail, journal_exists, plans, mode, i,
                   entries, origin, moved, jlen0, work>>
    /\ UNCHANGED <<plan_vars, rules_vars, cluster_vars, scan_vars, conc_vars,
                   reflect_vars, prio_vars, group_vars, watch_vars,
                   auto_vars>>

RollbackStep ==
    /\ pc = "rollback"
    /\ j <= Len(rb)
    /\ LET e == rb[j]
           r == RollbackOne(fs, dirs, e)
       IN /\ fs' = r.fs
          /\ dirs' = r.dirs
          /\ origin' = IF r.moved
                       THEN ShutilMove(origin, e.target_path, e.original_path)
                       ELSE origin
    /\ j' = j + 1
    /\ UNCHANGED <<journal, tail, journal_exists, pc, plans, mode, i, entries,
                   rb, moved, jlen0, rb_fs0, rb_dirs0, last, prev, work, ops>>
    /\ UNCHANGED <<plan_vars, rules_vars, cluster_vars, scan_vars, conc_vars,
                   reflect_vars, prio_vars, group_vars, watch_vars,
                   auto_vars>>

RollbackDone ==
    /\ pc = "rollback"
    /\ j > Len(rb)
    /\ pc' = "idle"
    /\ prev' = last
    /\ last' = "rb_done"
    /\ UNCHANGED <<fs, dirs, journal, tail, journal_exists, plans, mode, i,
                   entries, rb, j, origin, moved, jlen0, rb_fs0, rb_dirs0,
                   work, ops>>
    /\ UNCHANGED <<plan_vars, rules_vars, cluster_vars, scan_vars, conc_vars,
                   reflect_vars, prio_vars, group_vars, watch_vars,
                   auto_vars>>

Next ==
    \/ \E ps \in PlanLists(MaxWork), m \in Modes : ExecStart(ps, m)
    \/ ExecStep
    \/ ExecAppend
    \/ \E at \in {"loop", "made", "opened"}, n \in 0..3 : ExecCrash(at, n)
    \/ \E k \in 0..MaxWork, at \in {"line", "part", "row"} :
          ExecCrashInAppend(k, at)
    \/ RollbackStart
    \/ RollbackStep
    \/ RollbackDone

Spec == Init /\ [][Next]_vars

\* ------------------------------------- organize: build_plans, execute_plans
\* the document at hand in build_plans, and what the loop body derives for it
CurProject == cluster[pidx]
CurDocId == CurProject.doc_ids[didx]
CurPath == ScanIndex[CurDocId].path
CurDigest == DictGet(ScanIndex[CurDocId], "blake3", <<>>)
CurBucket == BucketOf(CurProject, CurDocId)
CurBase == Base(ProjectRoot(CurProject.project_label), CurBucket)

\* files that lie in the target tree before the first run
Preexisting(seeds) ==
    /\ ppc = "idle"
    /\ \A p \in seeds : ~Exists(disk, p)
    /\ disk' = [p \in PlanPaths |-> IF p \in seeds THEN "old" ELSE disk[p]]
    /\ UNCHANGED <<cluster, pmode, ppc, pidx, didx, used_targets, candidate,
                   attempt, tried, pplans, xidx, rerun, disk_run1>>
    /\ UNCHANGED <<exec_vars, rules_vars, cluster_vars, scan_vars, conc_vars,
                   reflect_vars, prio_vars, group_vars, watch_vars,
                   auto_vars>>

\* organize is called: build_plans begins with the first project
BuildStart(c, m) ==
    /\ ppc = "idle"
    /\ cluster' = c
    /\ pmode' = m
    /\ ppc' = "build"
    /\ pidx' = 1
    /\ didx' = 1
    /\ pplans' = <<>>
    /\ UNCHANGED <<disk, used_targets, candidate, attempt, tried, xidx, rerun,
                   disk_run1>>
    /\ UNCHANGED <<exec_vars, rules_vars, cluster_vars, scan_vars, conc_vars,
                   reflect_vars, prio_vars, group_vars, watch_vars,
                   auto_vars>>

\* build_plans takes the next member document (for the first member of a
\* project: after used_targets = set()); a document without a scan record
\* is passed over, for any other resolve_target_path is entered
PlanDoc ==
    /\ ppc = "build"
    /\ used_targets' = UsedTargetsAt(used_targets, didx)
    /\ IF CurDocId \notin DOMAIN ScanIndex
       THEN LET n == AfterDoc(cluster, pidx, didx)
            IN /\ ppc' = n.ppc
               /\ pidx' = n.pidx
               /\ didx' = n.didx
               /\ xidx' = 1
               /\ UNCHANGED <<candidate, attempt, tried>>
       ELSE /\ ppc' = "resolve"
            /\ candidate' = CurBase \o "/" \o PathName(CurPath)
            /\ attempt' = 0
            /\ tried' = {}
            /\ UNCHANGED <<pidx, didx, xidx>>
    /\ UNCHANGED <<disk, cluster, pmode, pplans, rerun, disk_run1>>
    /\ UNCHANGED <<exec_vars, rules_vars, cluster_vars, scan_vars, conc_vars,
                   reflect_vars, prio_vars, group_vars, watch_vars,
                   auto_vars>>

\* one iteration of the loop of resolve_target_path
ResolveStep ==
    /\ ppc = "resolve"
    /\ Blocked(candidate, used_targets, disk)
    /\ attempt < AttemptCap
    /\ candidate' = CurBase \o "/" \o CurPath.stem
                        \o NameSuffix(HashSuffix(CurDigest), attempt)
                        \o CurPath.suffix
    /\ attempt' = attempt + 1
    /\ tried' = tried \cup {candidate}
    /\ UNCHANGED <<disk, cluster, pmode, ppc, pidx, didx, used_targets,
                   pplans, xidx, rerun, disk_run1>>
    /\ UNCHANGED <<exec_vars, rules_vars, cluster_vars, scan_vars, conc_vars,
                   reflect_vars, prio_vars, group_vars, watch_vars,
                   auto_vars>>

\* resolve_target_path returns; build_plans appends the plan and goes on
\* (past the last document: build_plans returns, execute_plans begins)
ResolveReturn ==
    /\ ppc = "resolve"
    /\ ~Blocked(candidate, used_targets, disk)
    /\ used_targets' = used_targets \cup {candidate}
    /\ pplans' = Append(pplans,
                        OrganizePlan(CurProject, CurDocId, CurBucket,
                                     PathStr(CurPath), candidate,
                                     HashSuffix(CurDigest)))
    /\ LET n == AfterDoc(cluster, pidx, didx)
       IN /\ ppc' = n.ppc
          /\ pidx' = n.pidx
          /\ didx' = n.didx
    /\ xidx' = 1
    /\ UNCHANGED <<disk, cluster, pmode, candidate, attempt, tried, rerun,
                   disk_run1>>
    /\ UNCHANGED <<exec_vars, rules_vars, cluster_vars, scan_vars, conc_vars,
                   reflect_vars, prio_vars, group_vars, watch_vars,
                   auto_vars>>

\* one iteration of the loop of execute_plans (build_plans has created the
\* directories; only the files are followed here)
PlanExecStep ==
    /\ ppc = "exec"
    /\ xidx <= Len(pplans)
    /\ disk' = ExecOne(disk, {}, pplans[xidx], pmode).fs
    /\ xidx' = xidx + 1
    /\ UNCHANGED <<cluster, pmode, ppc, pidx, didx, used_targets, candidate,
                   attempt, tried, pplans, rerun, disk_run1>>
    /\ UNCHANGED <<exec_vars, rules_vars, cluster_vars, scan_vars, conc_vars,
                   reflect_vars, prio_vars, group_vars, watch_vars,
                   auto_vars>>

\* execute_plans returns
PlanExecDone ==
    /\ ppc = "exec"
    /\ xidx > Len(pplans)
    /\ ppc' = IF rerun THEN "reran" ELSE "ran"
    /\ disk_run1' = IF rerun THEN disk_run1 ELSE disk
    /\ UNCHANGED <<disk, cluster, pmode, pidx, didx, used_targets, candidate,
                   attempt, tried, pplans, xidx, rerun>>
    /\ UNCHANGED <<exec_vars, rules_vars, cluster_vars, scan_vars, conc_vars,
                   reflect_vars, prio_vars, group_vars, watch_vars,
                   auto_vars>>

\* organize is called again with the same cluster result, scan index and schema
Rerun ==
    /\ ppc = "ran"
    /\ rerun' = TRUE
    /\ ppc' = "build"
    /\ pidx' = 1
    /\ didx' = 1
    /\ pplans' = <<>>
    /\ UNCHANGED <<disk, cluster, pmode, used_targets, candidate, attempt,
                   tried, xidx, disk_run1>>
    /\ UNCHANGED <<exec_vars, rules_vars, cluster_vars, scan_vars, conc_vars,
                   reflect_vars, prio_vars, group_vars, watch_vars,
                   auto_vars>>

NextPlan ==
    \/ \E seeds \in SeedSets : Preexisting(seeds)
    \/ \E c \in ClusterResults, m \in Modes : BuildStart(c, m)
    \/ PlanDoc
    \/ ResolveStep
    \/ ResolveReturn
    \/ PlanExecStep
    \/ PlanExecDone
    \/ Rerun

SpecPlan == Init /\ [][NextPlan]_vars

\* the loop of resolve_target_path is running code: it takes its next step
SpecPlanFair == SpecPlan /\ WF_vars(ResolveStep) /\ WF_vars(ResolveReturn)

\* ------------------------------------------------- rules: score_document
LoadRuleConfig(cfg) ==
    /\ rpc = "idle"
    /\ rule_config' = cfg
    /\ rpc' = "loaded"
    /\ UNCHANGED <<rdoc, scored, totals, prev_scored, prev_totals, raised>>
    /\ UNCHANGED <<exec_vars, plan_vars, cluster_vars, scan_vars, conc_vars,
                   reflect_vars, prio_vars, group_vars, watch_vars,
                   auto_vars>>

\* apply_rules scores a document
Score(document) ==
    /\ rpc = "loaded"
    /\ rdoc' = document
    /\ scored' = ScoreDocument(document, rule_config)
    /\ totals' = BucketTotals(document, rule_config)
    /\ rpc' = "scored"
    /\ UNCHANGED <<rule_config, prev_scored, prev_totals, raised>>
    /\ UNCHANGED <<exec_vars, plan_vars, cluster_vars, scan_vars, conc_vars,
                   reflect_vars, prio_vars, group_vars, watch_vars,
                   auto_vars>>

\* one weight of the configuration is raised by one and the same document
\* is scored again
RaiseWeight(key) ==
    /\ rpc = "scored"
    /\ key \in DOMAIN rule_config.weights
    /\ rule_config.weights[key] < MaxWeight
    /\ LET cfg == [rule_config EXCEPT !.weights[key] = @ + 1]
       IN /\ rule_config' = cfg
          /\ scored' = ScoreDocument(rdoc, cfg)
          /\ totals' = BucketTotals(rdoc, cfg)
    /\ prev_scored' = scored
    /\ prev_totals' = totals
    /\ raised' = TRUE
    /\ UNCHANGED <<rpc, rdoc>>
    /\ UNCHANGED <<exec_vars, plan_vars, cluster_vars, scan_vars, conc_vars,
                   reflect_vars, prio_vars, group_vars, watch_vars,
                   auto_vars>>

NextRules ==
    \/ \E cfg \in RuleConfigs : LoadRuleConfig(cfg)
    \/ \E document \in Documents : Score(document)
    \/ \E key \in WeightKeys : RaiseWeight(key)

SpecRules == Init /\ [][NextRules]_vars

\* ------------------------------------------------ cluster: cluster_documents
\* cluster_documents(documents, hints, score_map), called on a list of
\* ClusterInput
Cluster(documents, hints) ==
    /\ cpc = "idle"
    /\ cinput' = [documents |-> documents, hints |-> hints]
    /\ cresult' = ClusterDocuments(documents, hints, ClusterScoreMap)
    /\ cpc' = "clustered"
    /\ UNCHANGED <<cinput2, cresult2>>
    /\ UNCHANGED <<exec_vars, plan_vars, rules_vars, scan_vars, conc_vars,
                   reflect_vars, prio_vars, group_vars, watch_vars,
                   auto_vars>>

\* the call again, on the same documents in another (or the same) order
Recluster(documents) ==
    /\ cpc = "clustered"
    /\ cinput2' = [documents |-> documents, hints |-> cinput.hints]
    /\ cresult2' = ClusterDocuments(documents, cinput.hints, ClusterScoreMap)
    /\ cpc' = "reclustered"
    /\ UNCHANGED <<cinput, cresult>>
    /\ UNCHANGED <<exec_vars, plan_vars, rules_vars, scan_vars, conc_vars,
                   reflect_vars, prio_vars, group_vars, watch_vars,
                   auto_vars>>

NextCluster ==
    \/ \E documents \in DocumentLists, hints \in HintLists :
          Cluster(documents, hints)
    \/ \E documents \in Orderings(cinput.documents) : Recluster(documents)

SpecCluster == Init /\ [][NextCluster]_vars

\* ---------------------------------------------------------- scan: scan
\* scan(config): entry.  `order` is the order in which the directory r/s
\* lists its entries during this scan.
ScanStart(config, order) ==
    /\ scan_pc = "idle"
    /\ scans < MaxScans
    /\ scan_run' = [config |-> config, order |-> order, root |-> 1,
                    files |-> sfs, t0 |-> changes]
    /\ scan_futures' = <<>>
    /\ scan_pc' = "submit"
    /\ UNCHANGED <<sfs, store, scan_out, export, seen, scans, changes>>
    /\ UNCHANGED <<exec_vars, plan_vars, rules_vars, cluster_vars, conc_vars,
                   reflect_vars, prio_vars, group_vars, watch_vars,
                   auto_vars>>

\* one root of config.paths: a missing root is skipped; of the others every
\* path of the listing that is a file is submitted to the executor
ScanSubmit ==
    /\ scan_pc = "submit"
    /\ LET root == scan_run.config.paths[scan_run.root]
           submitted == IF RootExists(root)
                        THEN Submitted(sfs, root, scan_run.order)
                        ELSE <<>>
       IN scan_futures' = scan_futures \o [k \in 1..Len(submitted) |->
                                   Future(submitted[k])]
    /\ scan_run' = [scan_run EXCEPT !.root = @ + 1]
    /\ scan_pc' = IF scan_run.root = Len(scan_run.config.paths)
                  THEN "collect" ELSE "submit"
    /\ UNCHANGED <<sfs, store, scan_out, export, seen, scans, changes>>
    /\ UNCHANGED <<exec_vars, plan_vars, rules_vars, cluster_vars, conc_vars,
                   reflect_vars, prio_vars, group_vars, watch_vars,
                   auto_vars>>

\* The workers read, each its own file, and share nothing; a change of the
\* tree touches one file.  While at most one change is still to come, every
\* behaviour therefore has the documents of one in which the workers take
\* the files in the order of their first future (the futures of one file in
\* any order), and the model runs those only.
FirstFuture(path) ==
    CHOOSE n \in 1..Len(scan_futures) :
        /\ scan_futures[n].path = path
        /\ \A l \in 1..(n - 1) : scan_futures[l].path # path
InTurn(k) ==
    (changes + 1 >= MaxChanges) =>
        \A n \in 1..Len(scan_futures) :
            FirstFuture(scan_futures[n].path) < FirstFuture(scan_futures[k].path)
            => scan_futures[n].at = "done"

\* a worker of the executor runs _scan_file of future k up to and including
\* its next read of the file
ScanFileStep(k) ==
    /\ scan_pc \in {"submit", "collect"}
    /\ k \in 1..Len(scan_futures)
    /\ scan_futures[k].at # "done"
    /\ InTurn(k)
    /\ scan_futures' = [scan_futures EXCEPT
                      ![k] = ScanFile(@, sfs[@.path], scan_run.config)]
    /\ UNCHANGED <<sfs, store, scan_pc, scan_run, scan_out, export, seen,
                   scans, changes>>
    /\ UNCHANGED <<exec_vars, plan_vars, rules_vars, cluster_vars, conc_vars,
                   reflect_vars, prio_vars, group_vars, watch_vars,
                   auto_vars>>

\* the loop over future.result(), which waits for every future in turn, and
\* store_documents.  An exception leaves scan, once the executor has shut
\* down, before anything is stored or written.
ScanCollect ==
    /\ scan_pc = "collect"
    /\ \A k \in 1..Len(scan_futures) : scan_futures[k].at = "done"
    /\ LET out == Collect([k \in 1..Len(scan_futures) |-> scan_futures[k].result])
       IN IF out.raised
          THEN /\ scan_out' = [config |-> scan_run.config, raised |-> TRUE,
                               documents |-> <<>>, files |-> scan_run.files,
                               t0 |-> scan_run.t0, t1 |-> changes]
               /\ scan_pc' = "idle"
               /\ scan_run' = NoRun
               /\ scan_futures' = <<>>
               /\ scans' = scans + 1
               /\ UNCHANGED store
          ELSE /\ store' = StoreDocuments(store, out.documents)
               /\ scan_pc' = "export"
               /\ UNCHANGED <<scan_out, scan_run, scan_futures, scans>>
    /\ UNCHANGED <<sfs, export, seen, changes>>
    /\ UNCHANGED <<exec_vars, plan_vars, rules_vars, cluster_vars, conc_vars,
                   reflect_vars, prio_vars, group_vars, watch_vars,
                   auto_vars>>

\* json.dump of the documents to config.output_path, and the return
ScanExport ==
    /\ scan_pc = "export"
    /\ LET out == Collect([k \in 1..Len(scan_futures) |-> scan_futures[k].result])
       IN /\ export' = out.documents
          /\ scan_out' = [config |-> scan_run.config, raised |-> FALSE,
                          documents |-> out.documents,
                          files |-> scan_run.files,
                          t0 |-> scan_run.t0, t1 |-> changes]
          /\ seen' = seen \cup {out.documents[k] : k \in 1..Len(out.documents)}
    /\ scan_pc' = "idle"
    /\ scan_run' = NoRun
    /\ scan_futures' = <<>>
    /\ scans' = scans + 1
    /\ UNCHANGED <<sfs, store, changes>>
    /\ UNCHANGED <<exec_vars, plan_vars, rules_vars, cluster_vars, conc_vars,
                   reflect_vars, prio_vars, group_vars, watch_vars,
                   auto_vars>>

\* somebody writes a file of the tree
WriteFile(path, content) ==
    /\ changes < MaxChanges
    /\ sfs[path].content # content \/ ~IsFile(sfs[path])
    /\ sfs' = [sfs EXCEPT ![path] = [content |-> content, access |-> "ok"]]
    /\ changes' = changes + 1
    /\ UNCHANGED <<store, scan_pc, scan_run, scan_futures, scan_out, export, seen,
                   scans>>
    /\ UNCHANGED <<exec_vars, plan_vars, rules_vars, cluster_vars, conc_vars,
                   reflect_vars, prio_vars, group_vars, watch_vars,
                   auto_vars>>

\* a file loses its read permission
SetAccess(path, access) ==
    /\ changes < MaxChanges
    /\ sfs[path].access = "ok"
    /\ sfs' = [sfs EXCEPT ![path].access = access]
    /\ changes' = changes + 1
    /\ UNCHANGED <<store, scan_pc, scan_run, scan_futures, scan_out, export, seen,
                   scans>>
    /\ UNCHANGED <<exec_vars, plan_vars, rules_vars, cluster_vars, conc_vars,
                   reflect_vars, prio_vars, group_vars, watch_vars,
                   auto_vars>>

\* a file is deleted
RemoveFile(path) ==
    /\ changes < MaxChanges
    /\ IsFile(sfs[path])
    /\ sfs' = [sfs EXCEPT ![path] = NoScanFile]
    /\ changes' = changes + 1
    /\ UNCHANGED <<store, scan_pc, scan_run, scan_futures, scan_out, export, seen,
                   scans>>
    /\ UNCHANGED <<exec_vars, plan_vars, rules_vars, cluster_vars, conc_vars,
                   reflect_vars, prio_vars, group_vars, watch_vars,
                   auto_vars>>

NextScan ==
    \/ \E config \in ScanConfigs, order \in DirOrders : ScanStart(config, order)
    \/ ScanSubmit
    \/ \E k \in 1..Len(scan_futures) : ScanFileStep(k)
    \/ ScanCollect
    \/ ScanExport
    \/ \E path \in {"r/a.csv", "r/s/c.csv"}, content \in {KNew, KJson} :
          WriteFile(path, content)
    \/ SetAccess("r/s/b.py", "unreadable")
    \/ \E path \in {"r/a.csv", "r/s/b.py"} : RemoveFile(path)

SpecScan == Init /\ [][NextScan]_vars

\* ------------------------------------- execute_plans, two at the same time
\* both invocations are called, each with its plans and its mode, on one
\* filesystem or on two (x)
ConcStart(w, m, x) ==
    /\ \A p \in Invocations : invocation[p].pc = "idle"
    /\ invocation' = [p \in Invocations |->
                         [pc |-> "exec", plans |-> w[p], mode |-> m[p],
                          i |-> 1, at |-> "exists", entries |-> <<>>,
                          fsrc |-> NoFd, fdst |-> NoFile, offset |-> 0,
                          written |-> 0]]
    /\ xdev' = x
    /\ UNCHANGED <<shared_fs, shared_dirs, shared_journal, performed,
                   journal_ops>>
    /\ UNCHANGED <<exec_vars, plan_vars, rules_vars, cluster_vars, scan_vars,
                   reflect_vars, prio_vars, group_vars, watch_vars,
                   auto_vars>>

\* invocation p at `if not plan.source_path.exists()`: a plan whose source
\* is missing gets its row at once
ConcExists(p) ==
    /\ invocation[p].pc = "exec"
    /\ invocation[p].i <= Len(invocation[p].plans)
    /\ invocation[p].at = "exists"
    /\ LET inv == invocation[p]
           plan == inv.plans[inv.i]
       IN IF Exists(shared_fs, plan.source_path)
          THEN /\ invocation' = [invocation EXCEPT ![p].at = "mkdir"]
               /\ UNCHANGED performed
          ELSE /\ invocation' = [invocation EXCEPT
                                    ![p].i = inv.i + 1,
                                    ![p].entries =
                                        Append(inv.entries,
                                               JournalRow(plan, "missing"))]
               /\ performed' = Append(performed,
                                      [by |-> p, index |-> inv.i,
                                       status |-> "missing"])
    /\ UNCHANGED <<xdev, shared_fs, shared_dirs, shared_journal, journal_ops>>
    /\ UNCHANGED <<exec_vars, plan_vars, rules_vars, cluster_vars, scan_vars,
                   reflect_vars, prio_vars, group_vars, watch_vars,
                   auto_vars>>

\* ensure_directory(plan.target_path.parent)
ConcEnsureDirectory(p) ==
    /\ invocation[p].pc = "exec"
    /\ invocation[p].at = "mkdir"
    /\ shared_dirs' =
          EnsureDirectory(shared_dirs,
                          Parent(invocation[p].plans[invocation[p].i].target_path))
    /\ invocation' =
          [invocation EXCEPT
              ![p].at = IF invocation[p].mode = "move" THEN "move"
                        ELSE "open_src"]
    /\ UNCHANGED <<xdev, shared_fs, shared_journal, performed, journal_ops>>
    /\ UNCHANGED <<exec_vars, plan_vars, rules_vars, cluster_vars, scan_vars,
                   reflect_vars, prio_vars, group_vars, watch_vars,
                   auto_vars>>

\* the shutil call of invocation p has returned: entries.append
Appended(invs, p, status) ==
    [invs EXCEPT
        ![p].i = @ + 1,
        ![p].at = "exists",
        ![p].entries =
            Append(@, JournalRow(invs[p].plans[invs[p].i], status))]

\* shutil.move: os.rename(src, dst), which replaces whatever is at dst,
\* and entries.append.  When the source is gone since the check, or source
\* and target lie on two filesystems, rename raises OSError and changes
\* nothing, and shutil.move goes on with copy2 and os.unlink.
ConcMove(p) ==
    /\ invocation[p].pc = "exec"
    /\ invocation[p].at = "move"
    /\ LET inv == invocation[p]
           plan == inv.plans[inv.i]
       IN IF /\ Exists(shared_fs, plan.source_path)
             /\ ~(xdev /\ CanCrossDevice(plan.source_path, plan.target_path))
          THEN /\ shared_fs' = ShutilMove(shared_fs, plan.source_path,
                                          plan.target_path)
               /\ invocation' =
                     Appended(FdsAfterRename(invocation, shared_fs,
                                             plan.source_path,
                                             plan.target_path),
                              p, "moved")
               /\ performed' = Append(performed,
                                      [by |-> p, index |-> inv.i,
                                       status |-> "moved"])
          ELSE /\ invocation' = [invocation EXCEPT ![p].at = "open_src"]
               /\ UNCHANGED <<shared_fs, performed>>
    /\ UNCHANGED <<xdev, shared_dirs, shared_journal, journal_ops>>
    /\ UNCHANGED <<exec_vars, plan_vars, rules_vars, cluster_vars, scan_vars,
                   reflect_vars, prio_vars, group_vars, watch_vars,
                   auto_vars>>

\* the next step of shutil.copy2(src, dst) in invocation p, called by
\* execute_plans or by shutil.move: open(src, "rb"); open(dst, "wb"), which
\* makes the target or empties it; os.sendfile, called until it moves
\* nothing: a call reads what the source holds then behind the bytes
\* copied so far and writes it at that position of what the target holds
\* then (other bytes another invocation wrote stay); copystat, which needs
\* both paths; then for shutil.move os.unlink(src); and entries.append.  A path
\* that is gone raises FileNotFoundError, which leaves execute_plans: the
\* rows collected so far are never written.
ConcCopy2(p) ==
    /\ invocation[p].pc = "exec"
    /\ invocation[p].at \in {"open_src", "open_dst", "sendfile", "copystat",
                              "unlink"}
    /\ LET inv == invocation[p]
           plan == inv.plans[inv.i]
           src == plan.source_path
           dst == plan.target_path
           fallback == inv.mode = "move"
           done == [by |-> p, index |-> inv.i,
                    status |-> IF fallback THEN "moved" ELSE "copied"]
           raise == /\ invocation' = [invocation EXCEPT ![p].pc = "raised",
                                                        ![p].fsrc = NoFd,
                                                        ![p].fdst = NoFile]
                    /\ UNCHANGED <<shared_fs, performed>>
       IN CASE inv.at = "open_src" ->
                 IF ~Exists(shared_fs, src) THEN raise
                 ELSE /\ invocation' =
                            [invocation EXCEPT
                                ![p].fsrc = [path |-> src, content |-> NoFile],
                                ![p].at = "open_dst"]
                      /\ UNCHANGED <<shared_fs, performed>>
            [] inv.at = "open_dst" ->
                 /\ shared_fs' = [shared_fs EXCEPT ![dst] = Empty]
                 /\ invocation' = [invocation EXCEPT ![p].fdst = dst,
                                                     ![p].offset = 0,
                                                     ![p].at = "sendfile"]
                 /\ UNCHANGED performed
            [] inv.at = "sendfile" ->
                 LET sent == BytesFrom(FdContent(shared_fs, inv.fsrc),
                                       inv.offset)
                 IN IF sent = Empty
                    THEN /\ invocation' =
                               [invocation EXCEPT ![p].fsrc = NoFd,
                                                  ![p].fdst = NoFile,
                                                  ![p].offset = 0,
                                                  ![p].at = "copystat"]
                         /\ UNCHANGED <<shared_fs, performed>>
                    ELSE /\ shared_fs' =
                               IF inv.fdst # NoFile
                               THEN [shared_fs EXCEPT
                                        ![inv.fdst] =
                                            WriteAt(@, inv.offset, sent)]
                               ELSE shared_fs
                         /\ invocation' =
                               [invocation EXCEPT
                                   ![p].offset = @ + Len(sent)]
                         /\ UNCHANGED performed
            [] inv.at = "copystat" ->
                 IF ~Exists(shared_fs, src) \/ ~Exists(shared_fs, dst)
                 THEN raise
                 ELSE IF fallback
                 THEN /\ invocation' = [invocation EXCEPT ![p].at = "unlink"]
                      /\ UNCHANGED <<shared_fs, performed>>
                 ELSE /\ invocation' = Appended(invocation, p, "copied")
                      /\ performed' = Append(performed, done)
                      /\ UNCHANGED shared_fs
            [] inv.at = "unlink" ->
                 IF ~Exists(shared_fs, src) THEN raise
                 ELSE /\ shared_fs' = [shared_fs EXCEPT ![src] = NoFile]
                      /\ invocation' =
                            Appended(FdsAfterUnlink(invocation, shared_fs, src),
                                     p, "moved")
                      /\ performed' = Append(performed, done)
    /\ UNCHANGED <<xdev, shared_dirs, shared_journal, journal_ops>>
    /\ UNCHANGED <<exec_vars, plan_vars, rules_vars, cluster_vars, scan_vars,
                   reflect_vars, prio_vars, group_vars, watch_vars,
                   auto_vars>>

\* the loop of invocation p is over: append_jsonl(journal_path, entries).
\* No lock is taken.  The handle is opened for appending and the rows go
\* through its buffer, which reaches the file in pieces of whole rows:
\* here a row per step, so that rows of the other invocation can come
\* between any two.  An empty list writes nothing.
ConcAppend(p) ==
    /\ invocation[p].pc = "exec"
    /\ invocation[p].i > Len(invocation[p].plans)
    /\ LET inv == invocation[p]
           k == inv.written + 1
       IN IF k > Len(inv.entries)
          THEN /\ invocation' = [invocation EXCEPT ![p].pc = "done"]
               /\ UNCHANGED <<shared_journal, journal_ops>>
          ELSE /\ shared_journal' =
                      AppendJsonl(shared_journal, <<>>,
                                  <<inv.entries[k]>>).lines
               /\ journal_ops' =
                      Append(journal_ops,
                             [by |-> p, index |-> k,
                              status |-> inv.entries[k].status])
               /\ invocation' =
                      [invocation EXCEPT
                          ![p].written = k,
                          ![p].pc = IF k = Len(inv.entries) THEN "done"
                                    ELSE "exec"]
    /\ UNCHANGED <<xdev, shared_fs, shared_dirs, performed>>
    /\ UNCHANGED <<exec_vars, plan_vars, rules_vars, cluster_vars, scan_vars,
                   reflect_vars, prio_vars, group_vars, watch_vars,
                   auto_vars>>

NextConcurrent ==
    \/ /\ \A p \in Invocations : invocation[p].pc = "idle"
       /\ \E w \in ConcurrentWork, m \in [Invocations -> Modes],
             x \in BOOLEAN : ConcStart(w, m, x)
    \/ \E p \in Invocations : ConcExists(p)
    \/ \E p \in Invocations : ConcEnsureDirectory(p)
    \/ \E p \in Invocations : ConcMove(p)
    \/ \E p \in Invocations : ConcCopy2(p)
    \/ \E p \in Invocations : ConcAppend(p)

SpecConcurrent == Init /\ [][NextConcurrent]_vars

\* ------------------------------------------------------ TaskReflector.reflect
\* reflect keeps no state between calls: one call is followed from the
\* state before any call
Reflect(tasks) ==
    /\ reflect_in = <<>>
    /\ reflect_in' = tasks
    /\ reflect_out' = ReflectResult(tasks)
    /\ UNCHANGED <<exec_vars, plan_vars, rules_vars, cluster_vars, scan_vars,
                   conc_vars, prio_vars, group_vars, watch_vars,
                   auto_vars>>

NextReflect == \E tasks \in TaskLists : Reflect(tasks)

SpecReflect == Init /\ [][NextReflect]_vars

\* ------------------------------------------------------------ TaskExecutor
\* no call is in progress and no worker is still busy
PrioIdle ==
    /\ prio_pc \in {"idle", "returned", "raised"}
    /\ \A k \in 1..Len(future_to_task) : future_to_task[k].done > 0
    /\ runs < MaxRuns

\* execute_sequential(tasks) is called
SeqStart(tasks, strategy) ==
    /\ PrioIdle
    /\ sorted_tasks' = SortTasks(tasks, strategy)
    /\ future_to_task' = <<>>
    /\ prio_results' = <<>>
    /\ prio_pc' = "seq"
    /\ prio_idx' = 1
    /\ started' = <<>>
    /\ runs' = runs + 1
    /\ UNCHANGED <<completed_tasks, failed_tasks, max_workers>>
    /\ UNCHANGED <<exec_vars, plan_vars, rules_vars, cluster_vars, scan_vars,
                   conc_vars, reflect_vars, group_vars, watch_vars,
                   auto_vars>>

\* one iteration of the loop of execute_sequential; success is the
\* outcome of the task's command
SeqStep(success) ==
    /\ prio_pc = "seq"
    /\ prio_idx <= Len(sorted_tasks)
    /\ LET task == sorted_tasks[prio_idx]
       IN IF ~IsReady(task, completed_tasks)
          THEN /\ prio_idx' = prio_idx + 1
               /\ UNCHANGED <<completed_tasks, failed_tasks, prio_results,
                              prio_pc, started>>
          ELSE /\ started' = Start(task)
               /\ completed_tasks' = Completed(task, success)
               /\ failed_tasks' = Failed(task, success)
               /\ prio_results' = Append(prio_results, [task_id |-> task.id,
                                              success |-> success])
               /\ prio_pc' = IF success THEN "seq" ELSE "returned"
               /\ prio_idx' = IF success THEN prio_idx + 1 ELSE prio_idx
    /\ UNCHANGED <<sorted_tasks, future_to_task, max_workers, runs>>
    /\ UNCHANGED <<exec_vars, plan_vars, rules_vars, cluster_vars, scan_vars,
                   conc_vars, reflect_vars, group_vars, watch_vars,
                   auto_vars>>

SeqReturn ==
    /\ prio_pc = "seq"
    /\ prio_idx > Len(sorted_tasks)
    /\ prio_pc' = "returned"
    /\ UNCHANGED <<completed_tasks, failed_tasks, sorted_tasks, future_to_task,
                   prio_results, prio_idx, max_workers, started, runs>>
    /\ UNCHANGED <<exec_vars, plan_vars, rules_vars, cluster_vars, scan_vars,
                   conc_vars, reflect_vars, group_vars, watch_vars,
                   auto_vars>>

\* execute_parallel(tasks, max_workers) is called
ParStart(tasks, strategy, workers) ==
    /\ PrioIdle
    /\ sorted_tasks' = SortTasks(tasks, strategy)
    /\ future_to_task' = <<>>
    /\ prio_results' = <<>>
    /\ prio_pc' = "submit"
    /\ max_workers' = workers
    /\ started' = <<>>
    /\ runs' = runs + 1
    /\ UNCHANGED <<completed_tasks, failed_tasks, prio_idx>>
    /\ UNCHANGED <<exec_vars, plan_vars, rules_vars, cluster_vars, scan_vars,
                   conc_vars, reflect_vars, group_vars, watch_vars,
                   auto_vars>>

\* the first half of an iteration of the while loop: the ready tasks are
\* taken from sorted_tasks and submitted to the pool
ParSubmit ==
    /\ prio_pc = "submit"
    /\ LET ready_tasks ==
               SelectSeq(sorted_tasks,
                         LAMBDA t : /\ IsReady(t, completed_tasks)
                                    /\ Len(future_to_task) < max_workers)
       IN /\ sorted_tasks' =
                 SelectSeq(sorted_tasks, LAMBDA t : ~Occurs(ready_tasks, t))
          /\ future_to_task' = future_to_task \o
                 [k \in 1..Len(ready_tasks) |->
                     [task |-> ready_tasks[k], state |-> "queued", done |-> 0,
                      turn |-> 0, batch |-> FALSE, collected |-> FALSE]]
    /\ prio_pc' = "collect"
    /\ UNCHANGED <<completed_tasks, failed_tasks, prio_results, prio_idx,
                   max_workers, started, runs>>
    /\ UNCHANGED <<exec_vars, plan_vars, rules_vars, cluster_vars, scan_vars,
                   conc_vars, reflect_vars, group_vars, watch_vars,
                   auto_vars>>

\* a free worker of the pool takes a submitted task
TaskStart(k) ==
    /\ k \in 1..Len(future_to_task)
    /\ future_to_task[k].state = "queued"
    /\ Cardinality({x \in 1..Len(future_to_task) :
                       future_to_task[x].state = "running"}) < max_workers
    /\ future_to_task' = [future_to_task EXCEPT ![k].state = "running"]
    /\ started' = Start(future_to_task[k].task)
    /\ UNCHANGED <<completed_tasks, failed_tasks, sorted_tasks, prio_results,
                   prio_pc, prio_idx, max_workers, runs>>
    /\ UNCHANGED <<exec_vars, plan_vars, rules_vars, cluster_vars, scan_vars,
                   conc_vars, reflect_vars, group_vars, watch_vars,
                   auto_vars>>

\* execute_task ends in its worker
TaskFinish(k, success) ==
    /\ k \in 1..Len(future_to_task)
    /\ future_to_task[k].state = "running"
    /\ future_to_task' =
          [future_to_task EXCEPT
              ![k].state = IF success THEN "ok" ELSE "failed",
              ![k].done = 1,
              ![k].turn = IF prio_pc = "loop"
                          THEN LastTurn(future_to_task) ELSE 0]
    /\ completed_tasks' = Completed(future_to_task[k].task, success)
    /\ failed_tasks' = Failed(future_to_task[k].task, success)
    /\ UNCHANGED <<sorted_tasks, prio_results, prio_pc, prio_idx, max_workers,
                   started, runs>>
    /\ UNCHANGED <<exec_vars, plan_vars, rules_vars, cluster_vars, scan_vars,
                   conc_vars, reflect_vars, group_vars, watch_vars,
                   auto_vars>>

\* as_completed(future_to_task, timeout=1) is called: the futures that are
\* finished now get their turns; they are the first list it hands out
ParAsCompleted(order) ==
    /\ prio_pc = "collect"
    /\ future_to_task' =
          [k \in 1..Len(future_to_task) |->
              IF future_to_task[k].done > 0
              THEN [future_to_task[k] EXCEPT !.turn = order[k],
                                             !.batch = TRUE]
              ELSE future_to_task[k]]
    /\ prio_pc' = "loop"
    /\ UNCHANGED <<completed_tasks, failed_tasks, sorted_tasks, prio_results,
                   prio_idx, max_workers, started, runs>>
    /\ UNCHANGED <<exec_vars, plan_vars, rules_vars, cluster_vars, scan_vars,
                   conc_vars, reflect_vars, group_vars, watch_vars,
                   auto_vars>>

\* as_completed has handed out its list and the second has not passed:
\* it waits until a future has finished and takes those that have
\* finished by now as its next list
ParWake ==
    /\ prio_pc = "loop"
    /\ \A k \in 1..Len(future_to_task) : ~future_to_task[k].batch
    /\ \E k \in 1..Len(future_to_task) : future_to_task[k].turn > 0
    /\ future_to_task' =
          [k \in 1..Len(future_to_task) |->
              [future_to_task[k] EXCEPT !.batch = (future_to_task[k].turn > 0)]]
    /\ UNCHANGED <<completed_tasks, failed_tasks, sorted_tasks, prio_results,
                   prio_pc, prio_idx, max_workers, started, runs>>
    /\ UNCHANGED <<exec_vars, plan_vars, rules_vars, cluster_vars, scan_vars,
                   conc_vars, reflect_vars, group_vars, watch_vars,
                   auto_vars>>

\* one iteration of the as_completed loop, for the future handed out next;
\* the workers of the pool go on meanwhile
ParCollect ==
    /\ prio_pc = "loop"
    /\ \E k \in 1..Len(future_to_task) : future_to_task[k].batch
    /\ LET k == NextFuture(future_to_task)
           st == CollectLoop(future_to_task[k],
                             [results |-> prio_results,
                              sorted_tasks |-> sorted_tasks])
       IN /\ prio_results' = st.results
          /\ sorted_tasks' = st.sorted_tasks
          /\ future_to_task' =
                [x \in 1..Len(future_to_task) |->
                    IF x = k
                    THEN [future_to_task[x] EXCEPT !.turn = 0,
                                                   !.batch = FALSE,
                                                   !.collected = TRUE]
                    ELSE IF future_to_task[x].turn > 0
                    THEN [future_to_task[x] EXCEPT !.turn = @ - 1]
                    ELSE future_to_task[x]]
    /\ UNCHANGED <<completed_tasks, failed_tasks, prio_pc, prio_idx,
                   max_workers, started, runs>>
    /\ UNCHANGED <<exec_vars, plan_vars, rules_vars, cluster_vars, scan_vars,
                   conc_vars, reflect_vars, group_vars, watch_vars,
                   auto_vars>>

\* as_completed has handed out every submitted future: they are deleted
\* from future_to_task, and the while loop ends when nothing is left
ParCollected ==
    /\ prio_pc = "loop"
    /\ \A k \in 1..Len(future_to_task) : future_to_task[k].collected
    /\ future_to_task' = <<>>
    /\ prio_pc' = IF sorted_tasks = <<>> THEN "returned" ELSE "submit"
    /\ UNCHANGED <<completed_tasks, failed_tasks, sorted_tasks, prio_results,
                   prio_idx, max_workers, started, runs>>
    /\ UNCHANGED <<exec_vars, plan_vars, rules_vars, cluster_vars, scan_vars,
                   conc_vars, reflect_vars, group_vars, watch_vars,
                   auto_vars>>

\* as_completed(..., timeout=1) has handed out its list, futures are left
\* that it has not handed out (finished since, or not) and the second
\* since the call is over: TimeoutError leaves execute_parallel
ParTimeout ==
    /\ prio_pc = "loop"
    /\ \A k \in 1..Len(future_to_task) : ~future_to_task[k].batch
    /\ \E k \in 1..Len(future_to_task) : ~future_to_task[k].collected
    /\ prio_pc' = "raised"
    /\ UNCHANGED <<completed_tasks, failed_tasks, sorted_tasks, future_to_task,
                   prio_results, prio_idx, max_workers, started, runs>>
    /\ UNCHANGED <<exec_vars, plan_vars, rules_vars, cluster_vars, scan_vars,
                   conc_vars, reflect_vars, group_vars, watch_vars,
                   auto_vars>>

NextPriority ==
    \/ \E tasks \in PriorityTaskLists, s \in Strategies : SeqStart(tasks, s)
    \/ \E success \in BOOLEAN : SeqStep(success)
    \/ SeqReturn
    \/ \E tasks \in PriorityTaskLists, s \in Strategies, w \in WorkerCounts :
          ParStart(tasks, s, w)
    \/ ParSubmit
    \/ \E k \in 1..Len(future_to_task) : TaskStart(k)
    \/ \E k \in 1..Len(future_to_task), success \in BOOLEAN :
          TaskFinish(k, success)
    \/ \E order \in FinishedOrders(future_to_task) : ParAsCompleted(order)
    \/ ParWake
    \/ ParCollect
    \/ ParCollected
    \/ ParTimeout

SpecPriority == Init /\ [][NextPriority]_vars

\* the loop of execute_parallel and the workers of its pool keep running
SpecPriorityFair ==
    /\ SpecPriority
    /\ WF_vars(ParSubmit)
    /\ WF_vars(\E order \in FinishedOrders(future_to_task) :
                  ParAsCompleted(order))
    /\ WF_vars(ParWake)
    /\ WF_vars(ParCollect)
    /\ WF_vars(ParCollected)
    /\ WF_vars(\E k \in 1..Len(future_to_task) : TaskStart(k))
    /\ WF_vars(\E k \in 1..Len(future_to_task), success \in BOOLEAN :
                  TaskFinish(k, success))

\* -------------------------------------------------------- ParallelExecutor
\* identify_parallel_groups(tasks), then execute_parallel_groups(groups)
\* is entered with a pool of `workers` threads
Identify(tasks, workers) ==
    /\ group_pc = "idle"
    /\ group_tasks' = tasks
    /\ pool_size' = workers
    /\ IF IdentifyRaises(tasks)
       THEN /\ group_pc' = "raised"
            /\ UNCHANGED parallel_groups
       ELSE /\ group_pc' = "group"
            /\ parallel_groups' = IdentifyParallelGroups(tasks)
    /\ UNCHANGED <<group_completed, group_failed, group_idx, group_futures,
                   all_results, group_started>>
    /\ UNCHANGED group_i
    /\ UNCHANGED <<exec_vars, plan_vars, rules_vars, cluster_vars, scan_vars,
                   conc_vars, reflect_vars, prio_vars, watch_vars,
                   auto_vars>>

\* a group of one task: execute_task is called at once, in the thread of
\* the loop
GroupSingle ==
    /\ group_pc = "group"
    /\ group_idx <= Len(parallel_groups)
    /\ Len(parallel_groups[group_idx].tasks) = 1
    /\ group_started' =
          Append(group_started,
                 [task |-> parallel_groups[group_idx].tasks[1],
                  completed |-> group_completed])
    /\ group_pc' = "single"
    /\ UNCHANGED <<group_tasks, parallel_groups, group_completed, group_failed,
                   group_idx, group_futures, all_results, pool_size>>
    /\ UNCHANGED group_i
    /\ UNCHANGED <<exec_vars, plan_vars, rules_vars, cluster_vars, scan_vars,
                   conc_vars, reflect_vars, prio_vars, watch_vars,
                   auto_vars>>

\* its command ends, execute_task returns and the result is appended; the
\* workers of the pool went on meanwhile
GroupSingleDone(success) ==
    /\ group_pc = "single"
    /\ LET task == parallel_groups[group_idx].tasks[1]
       IN /\ group_completed' =
                 IF success THEN group_completed \cup {task.id}
                 ELSE group_completed
          /\ group_failed' =
                 IF success THEN group_failed ELSE group_failed \cup {task.id}
          /\ all_results' = Append(all_results, [task_id |-> task.id,
                                                 success |-> success])
    /\ group_pc' = "group"
    /\ group_idx' = group_idx + 1
    /\ UNCHANGED <<group_tasks, parallel_groups, group_futures, pool_size,
                   group_started>>
    /\ UNCHANGED group_i
    /\ UNCHANGED <<exec_vars, plan_vars, rules_vars, cluster_vars, scan_vars,
                   conc_vars, reflect_vars, prio_vars, watch_vars,
                   auto_vars>>

\* a group of several tasks, task by task: one that is ready now is
\* submitted; the workers of the pool go on between two tasks
GroupSubmit ==
    /\ \/ /\ group_pc = "group"
          /\ group_idx <= Len(parallel_groups)
          /\ Len(parallel_groups[group_idx].tasks) > 1
       \/ group_pc = "submit"
    /\ LET tasks == parallel_groups[group_idx].tasks
           n == IF group_pc = "group" THEN 1 ELSE group_i
       IN /\ group_futures' =
                 IF IsReady(tasks[n], group_completed)
                 THEN Append(group_futures,
                             [task |-> tasks[n], group |-> group_idx,
                              state |-> "queued", done |-> 0, turn |-> 0,
                              collected |-> FALSE])
                 ELSE group_futures
          /\ group_i' = IF n < Len(tasks) THEN n + 1 ELSE 1
          /\ group_pc' = IF n < Len(tasks) THEN "submit" ELSE "collect"
    /\ UNCHANGED <<group_tasks, parallel_groups, group_completed, group_failed,
                   group_idx, all_results, pool_size, group_started>>
    /\ UNCHANGED <<exec_vars, plan_vars, rules_vars, cluster_vars, scan_vars,
                   conc_vars, reflect_vars, prio_vars, watch_vars,
                   auto_vars>>

\* a free worker of the pool takes a submitted task
GroupTaskStart(k) ==
    /\ k \in 1..Len(group_futures)
    /\ group_futures[k].state = "queued"
    /\ Cardinality({x \in 1..Len(group_futures) :
                       group_futures[x].state = "running"}) < pool_size
    /\ group_futures' = [group_futures EXCEPT ![k].state = "running"]
    /\ group_started' =
          Append(group_started, [task |-> group_futures[k].task,
                                 completed |-> group_completed])
    /\ UNCHANGED <<group_tasks, parallel_groups, group_completed, group_failed,
                   group_pc, group_idx, all_results, pool_size>>
    /\ UNCHANGED group_i
    /\ UNCHANGED <<exec_vars, plan_vars, rules_vars, cluster_vars, scan_vars,
                   conc_vars, reflect_vars, prio_vars, watch_vars,
                   auto_vars>>

\* execute_task ends in its worker
GroupTaskFinish(k, success) ==
    /\ k \in 1..Len(group_futures)
    /\ group_futures[k].state = "running"
    /\ group_futures' =
          [group_futures EXCEPT
              ![k].state = IF success THEN "ok" ELSE "failed",
              ![k].done = 1,
              ![k].turn = IF /\ group_pc = "loop"
                             /\ k \in Uncollected(group_idx)
                          THEN LastTurn(group_futures) ELSE 0]
    /\ group_completed' =
          IF success THEN group_completed \cup {group_futures[k].task.id}
          ELSE group_completed
    /\ group_failed' =
          IF success THEN group_failed
          ELSE group_failed \cup {group_futures[k].task.id}
    /\ UNCHANGED <<group_tasks, parallel_groups, group_pc, group_idx,
                   all_results, pool_size, group_started>>
    /\ UNCHANGED group_i
    /\ UNCHANGED <<exec_vars, plan_vars, rules_vars, cluster_vars, scan_vars,
                   conc_vars, reflect_vars, prio_vars, watch_vars,
                   auto_vars>>

\* as_completed(future_to_task) is called for the futures of the group:
\* those that are finished now get their turns
GroupAsCompleted(order) ==
    /\ group_pc = "collect"
    /\ Uncollected(group_idx) # {}
    /\ group_futures' =
          [k \in 1..Len(group_futures) |->
              IF k \in DOMAIN order
              THEN [group_futures[k] EXCEPT !.turn = order[k]]
              ELSE group_futures[k]]
    /\ group_pc' = "loop"
    /\ UNCHANGED <<group_tasks, parallel_groups, group_completed, group_failed,
                   group_idx, all_results, pool_size, group_started>>
    /\ UNCHANGED group_i
    /\ UNCHANGED <<exec_vars, plan_vars, rules_vars, cluster_vars, scan_vars,
                   conc_vars, reflect_vars, prio_vars, watch_vars,
                   auto_vars>>

\* as_completed hands out the next future of the group: its result is
\* appended; a failure breaks the loop and the next group begins while
\* the other tasks of this group may still run
GroupCollect ==
    /\ group_pc = "loop"
    /\ \E x \in 1..Len(group_futures) : group_futures[x].turn > 0
    /\ LET k == NextFuture(group_futures)
           success == group_futures[k].state = "ok"
           left == Uncollected(group_idx) \ {k}
       IN /\ group_futures' =
                 [x \in 1..Len(group_futures) |->
                     IF x = k
                     THEN [group_futures[x] EXCEPT !.turn = 0,
                                                   !.collected = TRUE]
                     ELSE IF ~success
                     THEN [group_futures[x] EXCEPT !.turn = 0]
                     ELSE IF group_futures[x].turn > 0
                     THEN [group_futures[x] EXCEPT !.turn = @ - 1]
                     ELSE group_futures[x]]
          /\ all_results' =
                 Append(all_results, [task_id |-> group_futures[k].task.id,
                                      success |-> success])
          /\ IF ~success \/ left = {}
             THEN group_pc' = "group" /\ group_idx' = group_idx + 1
             ELSE UNCHANGED <<group_pc, group_idx>>
    /\ UNCHANGED <<group_tasks, parallel_groups, group_completed, group_failed,
                   pool_size, group_started>>
    /\ UNCHANGED group_i
    /\ UNCHANGED <<exec_vars, plan_vars, rules_vars, cluster_vars, scan_vars,
                   conc_vars, reflect_vars, prio_vars, watch_vars,
                   auto_vars>>

\* no task of the group was ready: nothing was submitted
GroupNothing ==
    /\ group_pc = "collect"
    /\ \A x \in 1..Len(group_futures) : group_futures[x].group # group_idx
    /\ group_pc' = "group"
    /\ group_idx' = group_idx + 1
    /\ UNCHANGED <<group_tasks, parallel_groups, group_completed, group_failed,
                   group_futures, all_results, pool_size, group_started>>
    /\ UNCHANGED group_i
    /\ UNCHANGED <<exec_vars, plan_vars, rules_vars, cluster_vars, scan_vars,
                   conc_vars, reflect_vars, prio_vars, watch_vars,
                   auto_vars>>

\* after the last group the pool is shut down, which waits for its tasks
GroupReturn ==
    /\ group_pc = "group"
    /\ group_idx > Len(parallel_groups)
    /\ \A x \in 1..Len(group_futures) : group_futures[x].done > 0
    /\ group_pc' = "returned"
    /\ UNCHANGED <<group_tasks, parallel_groups, group_completed, group_failed,
                   group_idx, group_futures, all_results, pool_size,
                   group_started>>
    /\ UNCHANGED group_i
    /\ UNCHANGED <<exec_vars, plan_vars, rules_vars, cluster_vars, scan_vars,
                   conc_vars, reflect_vars, prio_vars, watch_vars,
                   auto_vars>>

NextGroups ==
    \/ \E tasks \in GroupTaskLists, w \in WorkerCounts : Identify(tasks, w)
    \/ GroupSingle
    \/ \E success \in BOOLEAN : GroupSingleDone(success)
    \/ GroupSubmit
    \/ \E k \in 1..Len(group_futures) : GroupTaskStart(k)
    \/ \E k \in 1..Len(group_futures), success \in BOOLEAN :
          GroupTaskFinish(k, success)
    \/ \E order \in GroupFinishedOrders(group_idx) : GroupAsCompleted(order)
    \/ GroupCollect
    \/ GroupNothing
    \/ GroupReturn

SpecGroups == Init /\ [][NextGroups]_vars

\* ------------------------------------------------------ AdvancedFileHandler
\* AdvancedFileHandler(WatchdogConfig(debounce_time, hash_check))
WatchConstruct(debounce_time, hash_check) ==
    /\ ~watch_config.built
    /\ watch_config' = [debounce_time |-> debounce_time,
                        hash_check |-> hash_check, built |-> TRUE]
    /\ UNCHANGED <<watch_fs, watch_clock, file_hashes, last_triggered,
                   skipped_events, watch_call, watch_calls, trigger_content>>
    /\ UNCHANGED <<exec_vars, plan_vars, rules_vars, cluster_vars, scan_vars,
                   conc_vars, reflect_vars, prio_vars, group_vars,
                   auto_vars>>

\* a second passes
WatchTick ==
    /\ watch_config.built
    /\ watch_clock < MaxClock
    /\ watch_clock' = watch_clock + 1
    /\ UNCHANGED <<watch_config, watch_fs, file_hashes, last_triggered,
                   skipped_events, watch_call, watch_calls, trigger_content>>
    /\ UNCHANGED <<exec_vars, plan_vars, rules_vars, cluster_vars, scan_vars,
                   conc_vars, reflect_vars, prio_vars, group_vars,
                   auto_vars>>

\* somebody writes, creates or removes a watched file
WatchWrite(path, content) ==
    /\ watch_config.built
    /\ watch_fs[path] # content
    /\ watch_fs' = [watch_fs EXCEPT ![path] = content]
    /\ UNCHANGED <<watch_config, watch_clock, file_hashes, last_triggered,
                   skipped_events, watch_call, watch_calls, trigger_content>>
    /\ UNCHANGED <<exec_vars, plan_vars, rules_vars, cluster_vars, scan_vars,
                   conc_vars, reflect_vars, prio_vars, group_vars,
                   auto_vars>>

\* the call returns: watch_call holds its result
CallReturned(call, result) == [call EXCEPT !.result = result, !.pc = "done"]

\* should_trigger_reflection(path), up to the return of
\* should_process_file: the reads of the file there see the file as it is
\* now; a file that does not pass ends the call with False
ShouldTriggerReflection(path) ==
    /\ watch_config.built
    /\ watch_call.pc = "done"
    /\ watch_calls < MaxCalls
    /\ LET call == [path |-> path, at |-> watch_clock,
                    previous |-> IF path \in DOMAIN last_triggered
                                 THEN last_triggered[path] ELSE -1,
                    result |-> FALSE, pc |-> "debounce"]
       IN IF ShouldProcessFile(watch_fs, path)
          THEN /\ watch_call' = call
               /\ watch_calls' = watch_calls
          ELSE /\ watch_call' = CallReturned(call, FALSE)
               /\ watch_calls' = watch_calls + 1
    /\ UNCHANGED <<watch_config, watch_fs, watch_clock, file_hashes,
                   last_triggered, skipped_events, trigger_content>>
    /\ UNCHANGED <<exec_vars, plan_vars, rules_vars, cluster_vars, scan_vars,
                   conc_vars, reflect_vars, prio_vars, group_vars,
                   auto_vars>>

\* now = time.time() and the debounce test; without hash_check the call
\* ends here, with last_triggered[path] = now and True
WatchDebounce ==
    /\ watch_call.pc = "debounce"
    /\ LET path == watch_call.path
           now == watch_clock
           call == [watch_call EXCEPT !.at = now]
       IN IF Debounced(last_triggered, path, now, watch_config.debounce_time)
          THEN /\ skipped_events' = skipped_events + 1
               /\ watch_call' = CallReturned(call, FALSE)
               /\ watch_calls' = watch_calls + 1
               /\ UNCHANGED <<last_triggered, trigger_content>>
          ELSE IF watch_config.hash_check
          THEN /\ watch_call' = [call EXCEPT !.pc = "hash"]
               /\ UNCHANGED <<skipped_events, watch_calls, last_triggered,
                              trigger_content>>
          ELSE /\ last_triggered' = DictSet(last_triggered, path, now)
               /\ trigger_content' =
                      DictSet(trigger_content, path, watch_fs[path])
               /\ watch_call' = CallReturned(call, TRUE)
               /\ watch_calls' = watch_calls + 1
               /\ UNCHANGED skipped_events
    /\ UNCHANGED <<watch_config, watch_fs, watch_clock, file_hashes>>
    /\ UNCHANGED <<exec_vars, plan_vars, rules_vars, cluster_vars, scan_vars,
                   conc_vars, reflect_vars, prio_vars, group_vars,
                   auto_vars>>

\* current_hash = _calculate_file_hash(path), read from the file as it is
\* now, and the rest of the call: a hash equal to the recorded one is
\* skipped with False, another one is recorded, last_triggered[path] is
\* the time read before, and the call returns True
WatchHash ==
    /\ watch_call.pc = "hash"
    /\ LET path == watch_call.path
       IN IF SameHash(file_hashes, watch_fs, path)
          THEN /\ skipped_events' = skipped_events + 1
               /\ watch_call' = CallReturned(watch_call, FALSE)
               /\ UNCHANGED <<file_hashes, last_triggered, trigger_content>>
          ELSE /\ file_hashes' =
                      DictSet(file_hashes, path,
                              CalculateFileHash(watch_fs, path))
               /\ last_triggered' =
                      DictSet(last_triggered, path, watch_call.at)
               /\ trigger_content' =
                      DictSet(trigger_content, path, watch_fs[path])
               /\ watch_call' = CallReturned(watch_call, TRUE)
               /\ UNCHANGED skipped_events
    /\ watch_calls' = watch_calls + 1
    /\ UNCHANGED <<watch_config, watch_fs, watch_clock>>
    /\ UNCHANGED <<exec_vars, plan_vars, rules_vars, cluster_vars, scan_vars,
                   conc_vars, reflect_vars, prio_vars, group_vars,
                   auto_vars>>

NextWatch ==
    \/ \E d \in DebounceTimes, h \in BOOLEAN : WatchConstruct(d, h)
    \/ WatchTick
    \/ \E p \in WatchPaths : \E c \in WritesTo(p) : WatchWrite(p, c)
    \/ \E p \in WatchPaths : ShouldTriggerReflection(p)
    \/ WatchDebounce
    \/ WatchHash

SpecWatch == Init /\ [][NextWatch]_vars

\* ------------------------------------------------------------ AutoReflector
\* trigger_reflection is entered: success = False, then
\* success = self._execute_reflection()
TriggerExecute(caller, run) ==
    /\ auto_calls[caller].pc = "idle"
    /\ auto_started < MaxTriggers
    /\ auto_started' = auto_started + 1
    /\ auto_calls' = [auto_calls EXCEPT ![caller] =
                          [pc |-> "count", call |-> auto_started + 1,
                           run |-> run, success |-> ExecuteReflection(run)]]
    /\ UNCHANGED <<total_reflections, successful_reflections,
                   failed_reflections, reflection_history, auto_returns>>
    /\ UNCHANGED <<exec_vars, plan_vars, rules_vars, cluster_vars, scan_vars,
                   conc_vars, reflect_vars, prio_vars, group_vars,
                   watch_vars>>

\* if success: successful_reflections += 1, else failed_reflections += 1
TriggerCount(caller) ==
    /\ auto_calls[caller].pc = "count"
    /\ IF auto_calls[caller].success
       THEN /\ successful_reflections' = successful_reflections + 1
            /\ UNCHANGED failed_reflections
       ELSE /\ failed_reflections' = failed_reflections + 1
            /\ UNCHANGED successful_reflections
    /\ auto_calls' = [auto_calls EXCEPT ![caller].pc = "total"]
    /\ UNCHANGED <<total_reflections, reflection_history, auto_started,
                   auto_returns>>
    /\ UNCHANGED <<exec_vars, plan_vars, rules_vars, cluster_vars, scan_vars,
                   conc_vars, reflect_vars, prio_vars, group_vars,
                   watch_vars>>

\* finally: total_reflections += 1
TriggerTotal(caller) ==
    /\ auto_calls[caller].pc = "total"
    /\ total_reflections' = total_reflections + 1
    /\ auto_calls' = [auto_calls EXCEPT ![caller].pc = "record"]
    /\ UNCHANGED <<successful_reflections, failed_reflections,
                   reflection_history, auto_started, auto_returns>>
    /\ UNCHANGED <<exec_vars, plan_vars, rules_vars, cluster_vars, scan_vars,
                   conc_vars, reflect_vars, prio_vars, group_vars,
                   watch_vars>>

\* finally: the ReflectionEvent is built and appended to the history
TriggerRecord(caller) ==
    /\ auto_calls[caller].pc = "record"
    /\ reflection_history' =
           Append(reflection_history,
                  [call |-> auto_calls[caller].call,
                   triggered_by |-> caller,
                   success |-> auto_calls[caller].success])
    /\ auto_calls' = [auto_calls EXCEPT ![caller].pc = "return"]
    /\ UNCHANGED <<total_reflections, successful_reflections,
                   failed_reflections, auto_started, auto_returns>>
    /\ UNCHANGED <<exec_vars, plan_vars, rules_vars, cluster_vars, scan_vars,
                   conc_vars, reflect_vars, prio_vars, group_vars,
                   watch_vars>>

\* return success
TriggerReturn(caller) ==
    /\ auto_calls[caller].pc = "return"
    /\ auto_returns' = Append(auto_returns,
                              [call |-> auto_calls[caller].call,
                               run |-> auto_calls[caller].run,
                               value |-> auto_calls[caller].success])
    /\ auto_calls' = [auto_calls EXCEPT ![caller] = NotCalling]
    /\ UNCHANGED <<total_reflections, successful_reflections,
                   failed_reflections, reflection_history, auto_started>>
    /\ UNCHANGED <<exec_vars, plan_vars, rules_vars, cluster_vars, scan_vars,
                   conc_vars, reflect_vars, prio_vars, group_vars,
                   watch_vars>>

NextAuto ==
    \/ \E c \in Callers, r \in Runs : TriggerExecute(c, r)
    \/ \E c \in Callers : TriggerCount(c)
    \/ \E c \in Callers : TriggerTotal(c)
    \/ \E c \in Callers : TriggerRecord(c)
    \/ \E c \in Callers : TriggerReturn(c)

SpecAuto == Init /\ [][NextAuto]_vars

\* ================================================================ claims

Idle(l) == pc = "idle" /\ last = l

\* the entries execute_plans built for operations it performed
Performed == {k \in 1..Len(entries) : entries[k].status # "missing"}

\* the rows of the journal file a JSON parser accepts
ParseableEntries(lines) ==
    LET ok == SelectSeq(lines, LAMBDA l : ~l.garbled)
    IN [k \in 1..Len(ok) |-> ok[k].entry]

\* the file that was at path o when execute_plans began is at o, and only there
RestoredAt(o) == origin[o] = o /\ \A q \in Paths \ {o} : origin[q] # o

\* the old content of the journal file is a prefix of the new content
JournalGrows ==
    /\ Len(journal) <= Len(journal')
    /\ SubSeq(journal', 1, Len(journal)) = journal
    /\ tail # <<>> =>
          IF Len(journal') = Len(journal)
          THEN tail' = tail \/ (tail' # <<>> /\ tail'[1].garbled)
          ELSE journal'[Len(journal) + 1].garbled
    /\ journal_exists => journal_exists'

JournalUntouched ==
    /\ journal' = journal
    /\ tail' = tail
    /\ journal_exists' = journal_exists

\* this step is one iteration of the loop of execute_plans
IsExecStep == pc = "exec" /\ i <= Len(plans) /\ i' = i + 1

\* this step is one iteration of the loop of rollback_from_journal
IsRollbackStep == pc = "rollback" /\ j <= Len(rb) /\ j' = j + 1

\* C1: after execute_plans in move mode, a rollback run directly afterwards
\* puts every file that was moved back at the path it was at before the
\* run, and at no other path.
C1_RoundTripRestoresMovedFiles ==
    (Idle("rb_done") /\ prev = "exec_done" /\ mode = "move")
        => \A o \in moved : RestoredAt(o)

\* C2: when execute_plans stops after it performed moves or copies, the
\* journal on disk holds an entry for every operation it performed.
C2_JournalCoversPerformedOperations ==
    Idle("crashed") =>
        \A k \in Performed :
            \E n \in (jlen0 + 1)..Len(journal \o tail) :
                /\ (journal \o tail)[n].entry = entries[k]
                /\ ~(journal \o tail)[n].garbled

\* C3: a rollback run directly after a rollback moves no file and leaves
\* the filesystem as it found it.
C3_SecondRollbackIsNoOp ==
    (Idle("rb_done") /\ prev = "rb_done") => (fs = rb_fs0 /\ dirs = rb_dirs0)

\* C4: when execute_plans(plans) returns, the journal has grown by exactly
\* len(plans) rows, the k-th of them carrying the k-th plan's doc_id, its
\* source_path as original_path and its target_path, for performed and for
\* missing plans alike.
C4_OneEntryPerPlan ==
    Idle("exec_done") =>
        /\ Len(journal) = jlen0 + Len(plans)
        /\ \A k \in 1..Len(plans) :
              LET e == journal[jlen0 + k].entry
              IN /\ e.doc_id = plans[k].doc_id
                 /\ e.original_path = plans[k].source_path
                 /\ e.target_path = plans[k].target_path
                 /\ e.status \in {"moved", "copied", "missing"}

C4_Witness ==
    /\ Idle("exec_done")
    /\ Len(plans) = 2
    /\ journal[jlen0 + 1].entry.status = "moved"
    /\ journal[jlen0 + 2].entry.status = "missing"

\* C5: the journal is append-only: every step leaves the old content of the
\* journal file as a prefix of the new content, and no step of
\* rollback_from_journal changes the journal file at all.
C5_JournalAppendOnly ==
    [][JournalGrows /\ (pc' # "exec" /\ pc # "exec" => JournalUntouched)]_vars

C5_Witness ==
    /\ Idle("rb_done")
    /\ prev = "exec_done"
    /\ jlen0 >= 1
    /\ Len(journal) > jlen0
    /\ fs # rb_fs0

\* C6: for a plan whose source does not exist when its turn comes,
\* execute_plans changes neither files nor directories and records the
\* plan with status "missing", which is the status the journal row has.
C6_MissingSourceNoMutation ==
    /\ [][(IsExecStep /\ ~Exists(fs, plans[i].source_path))
            => /\ fs' = fs
               /\ dirs' = dirs
               /\ entries' = Append(entries, JournalRow(plans[i], "missing"))
               /\ entries'[i].status = "missing"]_vars
    /\ [](Idle("exec_done") =>
            \A k \in 1..Len(entries) : journal[jlen0 + k].entry = entries[k])

C6_Witness ==
    /\ pc = "exec"
    /\ i > 1
    /\ entries[i - 1].status = "missing"
    /\ Parent(entries[i - 1].target_path) \notin dirs

\* C7: for a plan whose source exists when its turn comes: move mode leaves
\* the file at target_path and no file at source_path, status "moved"; copy
\* mode leaves the file at both paths, status "copied".  Every row of the
\* journal has status moved, copied or missing.
C7_MoveAndCopyEffect ==
    /\ [][(IsExecStep /\ Exists(fs, plans[i].source_path)) =>
            LET s == plans[i].source_path
                t == plans[i].target_path
            IN /\ fs'[t] = fs[s]
               /\ Parent(t) \in dirs'
               /\ \A q \in Paths \ {s, t} : fs'[q] = fs[q]
               /\ IF mode = "move"
                  THEN ~Exists(fs', s) /\ entries'[i].status = "moved"
                  ELSE fs'[s] = fs[s] /\ entries'[i].status = "copied"]_vars
    /\ [](\A n \in 1..Len(journal) :
            journal[n].entry.status \in {"moved", "copied", "missing"})

C7_Witness ==
    /\ pc = "exec"
    /\ mode = "move"
    /\ i > 1
    /\ entries[i - 1].status = "moved"
    /\ fs[entries[i - 1].target_path] = entries[i - 1].original_path
    /\ \E n \in 1..Len(journal) : journal[n].entry.status = "copied"

\* C8: rollback moves no file for an entry whose status is "missing" or
\* whose target_path does not exist, and goes on to the next entry.
C8_SkipsMissingOrAbsentTarget ==
    [][(IsRollbackStep /\ (rb[j].status = "missing"
                            \/ ~Exists(fs, rb[j].target_path)))
         => (fs' = fs /\ dirs' = dirs /\ pc' = "rollback")]_vars

\* the last execute_plans moved a file from A to B and then from B on to C
ChainRun ==
    /\ mode = "move"
    /\ Len(plans) = 2
    /\ Len(entries) = 2
    /\ entries[1].status = "moved"
    /\ plans[1].target_path = plans[2].source_path

\* C9: rollback replays the journal last row first: when the last run moved
\* a file from A to B and then from B to C, a rollback started right after
\* it first moves the file from C back to B and then from B back to A.
C9_ReverseReplayUndoesChain ==
    (pc = "rollback" /\ last = "exec_done" /\ ChainRun) =>
        LET A == plans[1].source_path
            B == plans[1].target_path
        IN /\ j = 2 => origin[B] = A
           /\ j = 3 => RestoredAt(A)

C9_Witness ==
    /\ pc = "rollback"
    /\ last = "exec_done"
    /\ ChainRun
    /\ plans[2].target_path # plans[1].source_path
    /\ j = 3
    /\ RestoredAt(plans[1].source_path)

\* C10: read_jsonl skips a line that is not JSON and returns all parseable
\* entries, so that rollback_from_journal never fails on such a journal.
C10_ReadersSkipUnparseableLines ==
    /\ ReadJsonl(journal_exists, journal, tail) =
           [raised |-> FALSE, entries |-> ParseableEntries(journal \o tail)]
    /\ last # "rb_raised"

\* ------------------------------------------------------ planner claims

\* build_plans has returned and execute_plans has not touched a file yet
Built == ppc = "exec" /\ xidx = 1

\* this step is the return of resolve_target_path
IsResolveReturn == ppc = "resolve" /\ ppc' # "resolve"

\* this step is one iteration of the loop of execute_plans
IsPlanExecStep == ppc = "exec" /\ xidx <= Len(pplans) /\ xidx' = xidx + 1

\* the n-th name of the sequence name, stem__h.ext, stem__h_1.ext, ...
SequenceName(stem, suffix, h, n) ==
    IF n = 0 THEN stem \o suffix
    ELSE IF n = 1 THEN stem \o "__" \o h \o suffix
    ELSE stem \o "__" \o h \o "_" \o ToString(n - 1) \o suffix

\* the first path of that sequence in directory base that is neither in
\* `taken` nor on disk
FirstFree(base, stem, suffix, h, taken) ==
    LET path(n) == base \o "/" \o SequenceName(stem, suffix, h, n)
        free == {n \in 0..AttemptCap :
                    path(n) \notin taken /\ ~Exists(disk, path(n))}
    IN path(CHOOSE n \in free : \A m \in free : n <= m)

\* the existing files
FilesOf(f) == {p \in PlanPaths : Exists(f, p)}

\* C11: within one project the target paths of the plans that build_plans
\* produces are pairwise distinct, also for documents that share a
\* filename and a bucket.
C11_TargetsDistinctWithinProject ==
    \A a, b \in 1..Len(pplans) :
        (a # b /\ pplans[a].project_id = pplans[b].project_id)
            => pplans[a].target_path # pplans[b].target_path

C11_Witness ==
    /\ Built
    /\ Len(pplans) = 2
    /\ pplans[1].project_id = pplans[2].project_id
    /\ pplans[1].bucket = pplans[2].bucket
    /\ pplans[1].target_path = TargetRoot \o "/q/docs/a.txt"
    /\ pplans[2].target_path = TargetRoot \o "/q/docs/a__abcdef0.txt"

\* C12: resolve_target_path returns the first path of the sequence
\* base/name, base/stem__h.ext, base/stem__h_1.ext, ... (h the first seven
\* characters of the digest) that is neither allocated nor on disk, and
\* adds exactly that path to used_targets.
C12_ReturnsFirstFreeCandidate ==
    [][IsResolveReturn =>
        /\ candidate = FirstFree(CurBase, CurPath.stem, CurPath.suffix,
                                 Str(Prefix(CurDigest, HashLen)), used_targets)
        /\ candidate \notin used_targets
        /\ ~Exists(disk, candidate)
        /\ used_targets' = used_targets \cup {candidate}
        /\ pplans'[Len(pplans')].target_path = candidate]_vars

C12_Witness ==
    /\ Built
    /\ ~rerun
    /\ Len(pplans) = 2
    /\ Exists(disk, TargetRoot \o "/p/docs/a.txt")
    /\ Exists(disk, TargetRoot \o "/p/docs/a__abcdef0.txt")
    /\ pplans[1].target_path = TargetRoot \o "/p/docs/a__abcdef0_1.txt"
    /\ pplans[2].target_path = TargetRoot \o "/p/docs/a__abcdef0_2.txt"

\* C13: the loop of resolve_target_path never tests a path it has tested
\* before in the same call, and every call returns.
C13_CollisionResolutionTerminates ==
    /\ [](ppc = "resolve" => candidate \notin tried)
    /\ (ppc = "resolve") ~> (ppc # "resolve")

C13_Witness ==
    /\ ppc = "exec"
    /\ attempt = 3
    /\ Cardinality(tried) = 3
    /\ candidate \notin tried
    /\ pplans[Len(pplans)].target_path = candidate

\* C14: the target of a plan is the first path of the sequence, under the
\* root of its own project, that is neither on disk nor the target of an
\* earlier plan of the same project; the plans of other projects do not
\* enter.  So same-named documents of one bucket in two projects with
\* different labels both keep the plain filename.
C14_AllocationPerProject ==
    Built =>
        \A k \in 1..Len(pplans) :
            LET plan == pplans[k]
                path == ScanIndex[plan.doc_id].path
                earlier == {pplans[a].target_path :
                              a \in {b \in 1..(k - 1) :
                                       pplans[b].project_id = plan.project_id}}
            IN plan.target_path =
                   FirstFree(TargetRoot \o "/" \o plan.project_label \o "/"
                               \o DictGet(BUCKET_DIRECTORY_MAP, plan.bucket,
                                          "archive"),
                             path.stem, path.suffix, plan.hash_suffix, earlier)

C14_Witness ==
    /\ Built
    /\ Len(pplans) = 2
    /\ pplans[1].project_id # pplans[2].project_id
    /\ pplans[1].project_label # pplans[2].project_label
    /\ pplans[1].bucket = pplans[2].bucket
    /\ pplans[1].target_path = TargetRoot \o "/p/docs/a.txt"
    /\ pplans[2].target_path = TargetRoot \o "/q/docs/a.txt"

\* C15: when execute_plans runs the plans of one build_plans call, no move
\* or copy writes to a target path at which a file exists at that moment.
C15_NoExistingFileOverwritten ==
    [][(IsPlanExecStep /\ Exists(disk, pplans[xidx].source_path))
          => ~Exists(disk, pplans[xidx].target_path)]_vars

\* C16: a second run of build_plans and execute_plans over the same
\* cluster result, scan index and schema leaves the set of files as the
\* first run left it, in move mode and in copy mode.
C16_RerunLeavesFilesUnchanged ==
    ppc = "reran" => FilesOf(disk) = FilesOf(disk_run1)

\* the record of a document has a non-empty path and a non-empty digest
Usable(d) ==
    /\ d \in DOMAIN ScanIndex
    /\ "path" \in DOMAIN ScanIndex[d]
    /\ PathName(ScanIndex[d].path) # ""
    /\ "blake3" \in DOMAIN ScanIndex[d]
    /\ ScanIndex[d].blake3 # <<>>

\* the (project, member) pairs of a cluster result, in order
RECURSIVE MemberPairs(_)
MemberPairs(c) ==
    IF c = <<>> THEN <<>>
    ELSE [k \in 1..Len(c[1].doc_ids) |-> <<c[1].project_id, c[1].doc_ids[k]>>]
         \o MemberPairs(Tail(c))

\* C17: build_plans returns one plan for every (project, member) pair
\* whose scan record has a non-empty path and digest, and none for a member
\* without a record or with a record that lacks the path or the digest.
C17_OnePlanPerUsableMember ==
    Built =>
        [k \in 1..Len(pplans) |-> <<pplans[k].project_id, pplans[k].doc_id>>]
            = SelectSeq(MemberPairs(cluster), LAMBDA m : Usable(m[2]))

\* C18: the bucket of a plan is the project's role_bucket_map entry of the
\* document, else its score_map entry, else "archive"; the target lies
\* directly in the project root joined with the table's directory of that
\* bucket, in project_root/archive for a bucket the table does not have.
C18_BucketAndDirectory ==
    \A k \in 1..Len(pplans) :
        LET plan == pplans[k]
            project == CHOOSE q \in {cluster[a] : a \in 1..Len(cluster)} :
                           q.project_id = plan.project_id
            bucket == IF plan.doc_id \in DOMAIN project.role_bucket_map
                      THEN project.role_bucket_map[plan.doc_id]
                      ELSE IF plan.doc_id \in DOMAIN ScoreMap
                      THEN ScoreMap[plan.doc_id]
                      ELSE "archive"
            relative == IF bucket \in DOMAIN BUCKET_DIRECTORY_MAP
                        THEN BUCKET_DIRECTORY_MAP[bucket]
                        ELSE "archive"
        IN /\ plan.bucket = bucket
           /\ Parent(plan.target_path) =
                  TargetRoot \o "/" \o project.project_label \o "/" \o relative

C18_Witness ==
    /\ Built
    /\ Len(pplans) = 3
    /\ pplans[1].bucket = "docs"
    /\ pplans[2].bucket = "misc"
    /\ pplans[3].bucket = "archive"
    /\ Parent(pplans[1].target_path) = TargetRoot \o "/q/docs"
    /\ Parent(pplans[2].target_path) = TargetRoot \o "/q/archive"
    /\ pplans[3].target_path = TargetRoot \o "/q/archive/a__.txt"

\* --------------------------------------------------- classifier claims

\* C19: score_document returns the first bucket, in the order of the
\* configuration, whose score is the largest of all buckets, with that
\* score, when the largest score is above zero; else bucket "archive",
\* score 0 and the reasons ["fallback"].
C19_FirstMaximalBucketWins ==
    rpc = "scored" =>
        LET n == Len(rule_config.buckets)
            top == {k \in 1..n : \A m \in 1..n : totals[m] <= totals[k]}
        IN IF \E k \in 1..n : totals[k] > 0
           THEN LET first == CHOOSE k \in top : \A m \in top : k <= m
                IN /\ scored.best_bucket = rule_config.buckets[first].name
                   /\ scored.score = totals[first]
           ELSE /\ scored.best_bucket = "archive"
                /\ scored.score = 0
                /\ scored.reasons = <<[kind |-> "fallback", matches |-> <<>>]>>

C19_Witness ==
    /\ rpc = "scored"
    /\ Len(rule_config.buckets) = 2
    /\ totals[1] = totals[2]
    /\ totals[1] > 0
    /\ scored.best_bucket = rule_config.buckets[1].name
    /\ scored.score = totals[1]

\* C20: after one weight was raised, with the document, the rules and the
\* other weights as before, no bucket scores less than before and the
\* score score_document returns is not less than before.
C20_WeightsActMonotonically ==
    raised =>
        /\ \A k \in 1..Len(totals) : totals[k] >= prev_totals[k]
        /\ scored.score >= prev_scored.score

C20_Witness ==
    /\ raised
    /\ \E k \in 1..Len(totals) : totals[k] > prev_totals[k]
    /\ scored.best_bucket # prev_scored.best_bucket
    /\ prev_scored.best_bucket # "archive"
    /\ \E key \in DOMAIN rule_config.weights : rule_config.weights[key] < 0

\* ---------------------------------------------------- clusterer claims
\* the projects of a result that list a doc_id, and their label and members
ProjectsOf(result, doc_id) ==
    {k \in 1..Len(result) : Occurs(result[k].doc_ids, doc_id)}
LabelsOf(result) == {result[k].project_label : k \in 1..Len(result)}
MembersOf(result, k) ==
    {result[k].doc_ids[n] : n \in 1..Len(result[k].doc_ids)}
InputDocs(input) == {input.documents[k] : k \in 1..Len(input.documents)}

\* lexicographic order of two strings by code point
LexBefore(a, b) ==
    \E n \in 0..Len(a) :
        /\ n <= Len(b)
        /\ SubSeq(a, 1, n) = SubSeq(b, 1, n)
        /\ \/ n = Len(a) /\ n < Len(b)
           \/ n < Len(a) /\ n < Len(b) /\ Ord(a[n + 1]) < Ord(b[n + 1])

\* out is s with every character other than a letter, a digit, "_" and "-"
\* replaced by "_", without the "_" and " " at its two ends, in lowercase
IsNormalized(s, out) ==
    LET r == [k \in 1..Len(s) |->
                IF IsAlnum(s[k]) \/ s[k] \in {"_", "-"} THEN s[k] ELSE "_"]
    IN \E a \in 0..Len(s) : \E b \in a..Len(s) :
          /\ \A k \in (1..a) \cup ((b + 1)..Len(s)) : r[k] \in {"_", " "}
          /\ a < b => r[a + 1] \notin {"_", " "} /\ r[b] \notin {"_", " "}
          /\ out = LowerStr(SubSeq(r, a + 1, b))

\* the path segments longer than two characters, case folded
LongSegments(parts) ==
    LET long == SelectSeq(parts, LAMBDA x : Len(x) > 2)
    IN [k \in 1..Len(long) |-> LowerStr(long[k])]

\* the label the project of document d carries in the result
LabelIn(result, d) ==
    result[CHOOSE k \in 1..Len(result) : Occurs(result[k].doc_ids, d.doc_id)]
        .project_label

\* C21: for two orderings of the same documents with the same hints and
\* score_map, cluster_documents yields the same set of project labels, the
\* same project_id for each label and the same member set for each project.
C21_ClusterDeterminism ==
    cpc = "reclustered" =>
        /\ LabelsOf(cresult) = LabelsOf(cresult2)
        /\ \A k \in 1..Len(cresult), l \in 1..Len(cresult2) :
              cresult[k].project_label = cresult2[l].project_label =>
                  /\ cresult[k].project_id = cresult2[l].project_id
                  /\ MembersOf(cresult, k) = MembersOf(cresult2, l)

\* the second call gets the documents in an order that begins with a
\* document of another label and that turns the members of a project around
C21_Witness ==
    /\ cpc = "reclustered"
    /\ Len(cresult) >= 2
    /\ InferProjectLabel(cinput.documents[1].parent, cinput.hints)
         # InferProjectLabel(cinput2.documents[1].parent, cinput.hints)
    /\ \E k \in 1..Len(cresult) :
          /\ Len(cresult[k].doc_ids) >= 2
          /\ cresult2[k].doc_ids = Reversed(cresult[k].doc_ids)

\* C22: cluster_documents numbers the projects project_001, project_002,
\* ... without gap from 1 in ascending lexicographic order of their labels,
\* and there is exactly one project for every distinct label.
C22_IdsFollowSortedLabels ==
    cpc # "idle" =>
        /\ \A k \in 1..Len(cresult) :
              k < 10 => cresult[k].project_id = "project_00" \o ToString(k)
        /\ \A k, l \in 1..Len(cresult) :
              k < l => LexBefore(cresult[k].project_label,
                                 cresult[l].project_label)
        /\ LabelsOf(cresult) =
              {InferProjectLabel(d.parent, cinput.hints) : d \in InputDocs(cinput)}
        /\ Len(cresult) = Cardinality(LabelsOf(cresult))

\* three projects, the documents not arriving in label order, among the
\* labels one that is a prefix-free neighbour only by "-" < "_" < letters
C22_Witness ==
    /\ cpc = "clustered"
    /\ Len(cresult) >= 3
    /\ cresult[1].project_label
         # InferProjectLabel(cinput.documents[1].parent, cinput.hints)
    /\ <<"a", "-", "b">> \in LabelsOf(cresult)
    /\ <<"a", "_", "b">> \in LabelsOf(cresult)

\* C23 (as stated): over the path segments longer than 2 characters, the
\* label is a matching hint, normalized; else the last two segments joined;
\* else the single segment; else "general_project".
C23_LabelPrecedence ==
    cpc # "idle" =>
        \A d \in InputDocs(cinput) :
            LET segs == LongSegments(d.parent)
                n == Len(segs)
                hit == {k \in 1..Len(cinput.hints) :
                           Occurs(segs, LowerStr(cinput.hints[k]))}
                label == LabelIn(cresult, d)
            IN IF hit # {}
               THEN \E k \in hit : IsNormalized(cinput.hints[k], label)
               ELSE IF n >= 2
               THEN label = segs[n - 1] \o <<"_">> \o segs[n]
               ELSE IF n = 1 THEN label = segs[1]
               ELSE label = GeneralProject

\* C23 (amended): the label is the first hint of the list that equals a
\* segment, case ignored, normalized; else the last two segments joined by
\* "_" and normalized; else the single segment, normalized; else
\* "general_project".
C23_LabelPrecedenceNormalized ==
    cpc # "idle" =>
        \A d \in InputDocs(cinput) :
            LET segs == LongSegments(d.parent)
                n == Len(segs)
                hit == {k \in 1..Len(cinput.hints) :
                           Occurs(segs, LowerStr(cinput.hints[k]))}
                label == LabelIn(cresult, d)
            IN IF hit # {}
               THEN \E k \in hit :
                       /\ \A l \in hit : k <= l
                       /\ IsNormalized(cinput.hints[k], label)
               ELSE IF n >= 2
               THEN IsNormalized(segs[n - 1] \o <<"_">> \o segs[n], label)
               ELSE IF n = 1 THEN IsNormalized(segs[1], label)
               ELSE label = GeneralProject

\* one document labelled by the first of two hints that both match it, one
\* by its last two segments, normalization changing them, one with a single
\* segment
C23_Witness ==
    /\ cpc = "clustered"
    /\ \E d, e, f \in InputDocs(cinput) :
          /\ Cardinality({k \in 1..Len(cinput.hints) :
                 Occurs(LongSegments(d.parent), LowerStr(cinput.hints[k]))}) = 2
          /\ IsNormalized(cinput.hints[1], LabelIn(cresult, d))
          /\ ~IsNormalized(cinput.hints[2], LabelIn(cresult, d))
          /\ Len(LongSegments(e.parent)) = 2
          /\ ~ \E k \in 1..Len(cinput.hints) :
                 Occurs(LongSegments(e.parent), LowerStr(cinput.hints[k]))
          /\ LabelIn(cresult, e)
               # LongSegments(e.parent)[1] \o <<"_">> \o LongSegments(e.parent)[2]
          /\ Len(LongSegments(f.parent)) = 1

\* C24: cluster_documents partitions its input: every input document's
\* doc_id is in the doc_ids of exactly one project, exactly once, no project
\* is empty, and two documents are in the same project if and only if their
\* inferred labels are the same.
C24_ClusterPartition ==
    cpc # "idle" =>
        /\ \A d \in InputDocs(cinput) :
              /\ Cardinality(ProjectsOf(cresult, d.doc_id)) = 1
              /\ \A k \in ProjectsOf(cresult, d.doc_id) :
                    Cardinality({n \in 1..Len(cresult[k].doc_ids) :
                                    cresult[k].doc_ids[n] = d.doc_id}) = 1
        /\ \A k \in 1..Len(cresult) :
              /\ cresult[k].doc_ids # <<>>
              /\ MembersOf(cresult, k) \subseteq
                    {d.doc_id : d \in InputDocs(cinput)}
        /\ \A d, e \in InputDocs(cinput) :
              (ProjectsOf(cresult, d.doc_id) = ProjectsOf(cresult, e.doc_id))
                <=> (InferProjectLabel(d.parent, cinput.hints)
                       = InferProjectLabel(e.parent, cinput.hints))

\* two documents of one label arrive with a document of another label
\* between them
C24_Witness ==
    /\ cpc = "clustered"
    /\ Len(cinput.documents) = 3
    /\ Len(cresult) = 2
    /\ InferProjectLabel(cinput.documents[1].parent, cinput.hints)
         = InferProjectLabel(cinput.documents[3].parent, cinput.hints)
    /\ \E k \in 1..Len(cresult) :
          cresult[k].doc_ids
            = <<cinput.documents[1].doc_id, cinput.documents[3].doc_id>>

\* ------------------------------------------------------ scanner claims
Scanned == scans > 0
\* the step of a scan that reaches store_documents
IsStore == scan_pc = "collect" /\ scan_pc' = "export"
\* the tree did not change while the last scan ran
Undisturbed == scan_out.t0 = scan_out.t1
\* the Documents of the scan under way, all scan_futures done
Collected ==
    LET out == Collect([k \in 1..Len(scan_futures) |-> scan_futures[k].result])
    IN {out.documents[k] : k \in 1..Len(out.documents)}
DocsOf(out) == {out.documents[k] : k \in 1..Len(out.documents)}
KeysOf(rows) == {rows[k].doc_id : k \in 1..Len(rows)}

\* the paths that lie below a root of the configuration that exists
BelowRoots(config) ==
    {p \in ScanPathSet :
        \E k \in 1..Len(config.paths) :
            /\ RootExists(config.paths[k])
            /\ \E order \in DirOrders : Occurs(Under(config.paths[k], order), p)}

\* a regular file that can be stat-ed and is not larger than the limit
Qualifies(file, config) ==
    /\ file.access # "absent"
    /\ Len(file.content) <= config.max_size_bytes

\* the strings of the content-derived fields of a Document
ContentStrings(doc) ==
    {doc.sample_text}
    \cup UNION {{field[k] : k \in 1..Len(field)} :
                  field \in {doc.imports_first, doc.top_comment,
                             doc.md_headings, doc.json_root_keys,
                             doc.csv_header}}

\* C25: scan returns exactly one Document for each regular file under the
\* configured roots whose size does not exceed max_size_bytes (a file of
\* exactly max_size_bytes is included), and no Document for a file that is
\* larger or cannot be stat-ed.
C25_OneDocumentPerQualifyingFile ==
    (Scanned /\ Undisturbed) =>
        /\ ~scan_out.raised
        /\ \A p \in ScanPathSet :
              Cardinality({k \in 1..Len(scan_out.documents) :
                              scan_out.documents[k].path = p})
                = IF /\ p \in BelowRoots(scan_out.config)
                     /\ Qualifies(scan_out.files[p], scan_out.config)
                  THEN 1 ELSE 0

\* C26: a file that cannot be opened for digesting is the only file missing
\* from the result: scan does not abort and returns, stores and exports the
\* Documents of all other qualifying files.
C26_PerFileErrorIsolated ==
    (/\ Scanned
     /\ Undisturbed
     /\ \E p \in BelowRoots(scan_out.config) :
           /\ scan_out.files[p].access = "unreadable"
           /\ Qualifies(scan_out.files[p], scan_out.config))
    => /\ ~scan_out.raised
       /\ \A q \in BelowRoots(scan_out.config) :
             (/\ scan_out.files[q].access = "ok"
              /\ Qualifies(scan_out.files[q], scan_out.config))
             => \E d \in DocsOf(scan_out) :
                   /\ d.path = q
                   /\ d.doc_id \in KeysOf(store)
                   /\ Occurs(export, d)

\* C27: the store is an upsert-only map keyed by doc_id: no step loses a
\* key or leaves two rows with one doc_id; a scan under the configuration
\* of the scan before, of a tree in which nothing changed since that scan
\* began, leaves the key set as it is; a scan of a file whose content
\* changed adds the new doc_id, and the old doc_id stays.
C27_StoreUpsertOnly ==
    [][/\ KeysOf(store) \subseteq KeysOf(store')
       /\ \A k, l \in 1..Len(store') :
             store'[k].doc_id = store'[l].doc_id => k = l
       /\ IsStore =>
             /\ (/\ Scanned
                 /\ ~scan_out.raised
                 /\ scan_run.config = scan_out.config
                 /\ changes = scan_out.t0)
                => KeysOf(store') = KeysOf(store)
             /\ \A d \in DocsOf(scan_out), e \in Collected :
                   (d.path = e.path /\ d.blake3 # e.blake3)
                   => /\ e.doc_id # d.doc_id
                      /\ {d.doc_id, e.doc_id} \subseteq KeysOf(store')
      ]_vars

\* the store holds the old and the new doc_id of a file whose content
\* changed between two scans
C27_Witness ==
    /\ scans = 2
    /\ Len(store) >= 4
    /\ \E k, l \in 1..Len(store) :
          /\ store[k].payload.path = store[l].payload.path
          /\ store[k].payload.blake3 # store[l].payload.blake3
          /\ Occurs(scan_out.documents, store[l].payload)
          /\ ~Occurs(scan_out.documents, store[k].payload)

\* C28: the doc_id is a function of (path, digest) only: the same pair has
\* the same doc_id in every scan, another digest at the same path has
\* another doc_id, and the same digest at another path has another doc_id.
C28_IdentityStability ==
    \A d, e \in seen :
        /\ (d.path = e.path /\ d.blake3 = e.blake3) => d.doc_id = e.doc_id
        /\ (d.path = e.path /\ d.blake3 # e.blake3) => d.doc_id # e.doc_id
        /\ (d.path # e.path /\ d.blake3 = e.blake3) => d.doc_id # e.doc_id

\* a file scanned before and after its content changed, and another file
\* with the content it had first
C28_Witness ==
    \E d, e, f \in seen :
        /\ d.path = e.path /\ d.blake3 # e.blake3
        /\ f.path # d.path /\ f.blake3 = d.blake3

\* C29: no content-derived field of a Document (sample_text, imports_first,
\* top_comment, md_headings, json_root_keys, csv_header) holds text that
\* mask_sensitive_text would still change.
C29_NoUnmaskedContent ==
    \A d \in seen : \A x \in ContentStrings(d) : MaskSensitiveText(x) = x

\* ------------------------------------------- concurrent executor claims
\* the loop iterations that moved or copied a file
FileOperations(iterations) ==
    SelectSeq(iterations, LAMBDA o : o.status # "missing")

\* C30: when two invocations of execute_plans run at the same time on the
\* same journal file, the entries stand in the journal in the order in
\* which their file operations were performed.
C30_JournalOrderMatchesOperations ==
    (\A p \in Invocations : invocation[p].pc = "done")
    => FileOperations(journal_ops) = FileOperations(performed)

\* ------------------------------------------------------ TaskReflector claims
\* the dependency graph of the input: an edge from a task to each dep
EdgeOf(tasks, a, b) ==
    \E k \in 1..Len(tasks) :
        /\ PyStr(tasks[k].id) = a
        /\ \E d \in 1..Len(tasks[k].deps) : PyStr(tasks[k].deps[d]) = b

\* b can be reached from a over at least one and at most n edges
RECURSIVE Reaches(_, _, _, _)
Reaches(tasks, a, b, n) ==
    /\ n > 0
    /\ \/ EdgeOf(tasks, a, b)
       \/ \E k \in 1..Len(tasks) :
             /\ EdgeOf(tasks, a, PyStr(tasks[k].id))
             /\ Reaches(tasks, PyStr(tasks[k].id), b, n - 1)

HasCycle(tasks) ==
    \E k \in 1..Len(tasks) :
        Reaches(tasks, PyStr(tasks[k].id), PyStr(tasks[k].id), Len(tasks))

DepsKnown(tasks) ==
    \A k \in 1..Len(tasks) : \A d \in 1..Len(tasks[k].deps) :
        \E c \in 1..Len(tasks) : PyStr(tasks[c].id) = PyStr(tasks[k].deps[d])

Positions(seq, x) == {k \in 1..Len(seq) : seq[k] = x}

\* C31: for an acyclic task list whose deps all name tasks of the list,
\* the order returned by topological_sort contains every task id exactly
\* once and every task stands after all of its deps.
C31_TopologicalOrderComplete ==
    (reflect_in # <<>> /\ ~HasCycle(reflect_in) /\ DepsKnown(reflect_in))
    => LET sorted == reflect_out.topo_order
       IN /\ Len(sorted) = Len(reflect_in)
          /\ \A k \in 1..Len(reflect_in) :
                /\ Cardinality(Positions(sorted, PyStr(reflect_in[k].id))) = 1
                /\ \A d \in 1..Len(reflect_in[k].deps) :
                      \E a, b \in 1..Len(sorted) :
                          /\ a < b
                          /\ sorted[a] = PyStr(reflect_in[k].deps[d])
                          /\ sorted[b] = PyStr(reflect_in[k].id)

\* C32: reflect returns every input task exactly once, the tasks outside
\* the topological order after the ordered ones, with the order values
\* 0..n-1 in output order and a complexity each.
C32_ReflectReturnsEveryTask ==
    reflect_in # <<>>
    => LET returned == reflect_out.tasks
           ids == [k \in 1..Len(returned) |-> returned[k].id]
       IN /\ Len(returned) = Len(reflect_in)
          /\ \A k \in 1..Len(reflect_in) :
                Cardinality(Positions(ids, reflect_in[k].id)) = 1
          /\ \A n \in 1..Len(returned) :
                /\ returned[n].order = n - 1
                /\ returned[n].complexity >= ClampMin
                /\ returned[n].complexity <= ClampMax
          /\ \A a, b \in 1..Len(returned) :
                (/\ Occurs(reflect_out.topo_order, PyStr(ids[b]))
                 /\ ~Occurs(reflect_out.topo_order, PyStr(ids[a]))) => b < a

\* a reported cycle starts and ends at one id and follows edges
RealCycle(tasks, cycle) ==
    /\ Len(cycle) >= 2
    /\ cycle[1] = cycle[Len(cycle)]
    /\ \A k \in 1..(Len(cycle) - 1) : EdgeOf(tasks, cycle[k], cycle[k + 1])

\* C33: detect_cycles returns no cycle (cycles_detected = 0) exactly when
\* the dependency graph has none, and every cycle it reports is a cycle
\* of the graph.
C33_CyclesDetectedIffCyclic ==
    /\ reflect_out.meta.cycles_detected = Len(reflect_out.cycles)
    /\ (reflect_out.cycles = <<>>) <=> ~HasCycle(reflect_in)
    /\ \A k \in 1..Len(reflect_out.cycles) :
          RealCycle(reflect_in, reflect_out.cycles[k])

\* a cycle over two tasks was reported for a list that also holds a task
\* outside every cycle
C33_Witness ==
    /\ \E k \in 1..Len(reflect_out.cycles) : Len(reflect_out.cycles[k]) = 3
    /\ \E k \in 1..Len(reflect_in) :
          ~Reaches(reflect_in, PyStr(reflect_in[k].id),
                   PyStr(reflect_in[k].id), Len(reflect_in))

\* ------------------------------------------------------ TaskExecutor claims
\* C34: a task is ready exactly when all of its deps are in
\* completed_tasks, and execute_sequential and execute_parallel start a
\* task only when it is ready: every dep of a started task had completed
\* successfully before the start.
C34_StartedTasksWereReady ==
    \A k \in 1..Len(started) :
        /\ IsReady(started[k].task, started[k].completed)
        /\ \A d \in 1..Len(started[k].task.deps) :
              started[k].task.deps[d] \in started[k].completed

\* a worker of execute_parallel has started a task with two deps, and
\* execute_sequential has passed over a task that was not ready
C34_Witness ==
    \/ /\ future_to_task # <<>>
       /\ \E k \in 1..Len(started) : Len(started[k].task.deps) = 2
    \/ /\ prio_pc = "seq"
       /\ \E k \in 1..(prio_idx - 1) :
             ~IsReady(sorted_tasks[k], completed_tasks)

\* C38: execute_parallel terminates for every task list, also after a
\* failed task with direct or transitive dependents and with a dep that
\* never completes: the submit/collect loop eventually exits.  Leaving the
\* loop by the TimeoutError of as_completed is counted as an exit here, so
\* that only a loop that runs forever violates the formula.
C38_ParallelTerminates ==
    (prio_pc = "submit") ~> (prio_pc \in {"returned", "raised"})

\* -------------------------------------------------- ParallelExecutor claims
DependsOn(task, other) == Occurs(task.deps, other.id)

\* C35: identify_parallel_groups places every task in exactly one group;
\* a group of several tasks holds only tasks that can run in parallel and
\* have the same dependency level, none of which depends on another
\* member; a task that cannot run in parallel is alone in its group.
C35_GroupsPartitionTasks ==
    group_pc # "idle"
    => /\ \A k \in 1..Len(group_tasks) :
             Cardinality({<<g, n>> \in (1..Len(parallel_groups))
                                          \X (1..Len(group_tasks)) :
                             /\ n <= Len(parallel_groups[g].tasks)
                             /\ parallel_groups[g].tasks[n] = group_tasks[k]})
                 = 1
       /\ \A g \in 1..Len(parallel_groups) :
             LET members == parallel_groups[g].tasks
             IN /\ Len(members) > 1 =>
                      \A a, b \in 1..Len(members) :
                          /\ CanParallel(members[a])
                          /\ GetDependencyDepth(group_tasks, members[a].id, {})
                             = GetDependencyDepth(group_tasks, members[b].id, {})
                          /\ ~DependsOn(members[a], members[b])
                /\ \A a \in 1..Len(members) :
                      ~CanParallel(members[a]) => Len(members) = 1

\* C39: execute_parallel_groups starts no task before all of its deps
\* have completed successfully, whatever the order of the task list and
\* whether the task is alone in its group or not.
C39_GroupTasksStartReady ==
    \A k \in 1..Len(group_started) :
        \A d \in 1..Len(group_started[k].task.deps) :
            group_started[k].task.deps[d] \in group_started[k].completed

\* ------------------------------------------------------ AdvancedFileHandler
\* with this step a should_trigger_reflection(path) call returns
TriggerCall(path) ==
    /\ watch_calls' = watch_calls + 1
    /\ watch_call'.path = path

\* the path triggered before, and the debounce time has not passed since
InsideDebounce(path) ==
    /\ path \in DOMAIN last_triggered
    /\ watch_clock < last_triggered[path] + watch_config.debounce_time

\* the path triggered before, the debounce time has passed since, and the
\* file holds other bytes than it held then
ChangedAfterDebounce(path) ==
    /\ path \in DOMAIN last_triggered
    /\ watch_clock >= last_triggered[path] + watch_config.debounce_time
    /\ watch_fs[path].exists
    /\ watch_fs[path] # trigger_content[path]

\* C36 as stated: after should_trigger_reflection returned True for a file
\* at time t, every call for that file before t + debounce_time returns
\* False, the call at or after t + debounce_time with changed file content
\* returns True, and with hash_check on a call for a file whose hash equals
\* the recorded hash returns False.
C36_DebounceContract ==
    [][\A path \in WatchPaths :
          TriggerCall(path) =>
              /\ InsideDebounce(path) => ~watch_call'.result
              /\ ChangedAfterDebounce(path) => watch_call'.result
              /\ (watch_config.hash_check
                  /\ SameHash(file_hashes, watch_fs, path))
                 => ~watch_call'.result]_vars

\* C36, amended: the call at or after t + debounce_time with changed content
\* returns True when the file passes should_process_file; the other two
\* parts as stated.
C36_DebounceContractProcessable ==
    [][\A path \in WatchPaths :
          TriggerCall(path) =>
              /\ InsideDebounce(path) => ~watch_call'.result
              /\ (ChangedAfterDebounce(path)
                  /\ ShouldProcessFile(watch_fs, path))
                 => watch_call'.result
              /\ (watch_config.hash_check
                  /\ SameHash(file_hashes, watch_fs, path))
                 => ~watch_call'.result]_vars

\* a file triggered, a call inside the debounce time was skipped, and a
\* call after the debounce time triggered again
C36_Witness ==
    /\ watch_call.result
    /\ watch_call.previous >= 0
    /\ watch_call.at >= watch_call.previous + watch_config.debounce_time
    /\ skipped_events > 0

\* ------------------------------------------------------------ AutoReflector
\* no trigger_reflection call is in progress
AutoQuiescent == \A c \in Callers : auto_calls[c].pc = "idle"

\* the events the history holds for one call
EventsOf(call) ==
    {k \in 1..Len(reflection_history) : reflection_history[k].call = call}

\* C37: when every trigger_reflection call made so far has returned,
\* total_reflections = successful_reflections + failed_reflections =
\* the length of reflection_history; every call has appended exactly one
\* event, whose success flag is the value the call returned; and a call
\* whose reflection failed returned False.
C37_ReflectionBookkeeping ==
    AutoQuiescent =>
        /\ total_reflections = successful_reflections + failed_reflections
        /\ total_reflections = Len(reflection_history)
        /\ Len(auto_returns) = Len(reflection_history)
        /\ \A r \in 1..Len(auto_returns) :
              /\ Cardinality(EventsOf(auto_returns[r].call)) = 1
              /\ \A k \in EventsOf(auto_returns[r].call) :
                    reflection_history[k].success = auto_returns[r].value
              /\ auto_returns[r].run # "zero" => ~auto_returns[r].value

\* three calls have returned, a failed and a successful one among them,
\* and two of them overlapped: the history is not in the order of entry
C37_Witness ==
    /\ AutoQuiescent
    /\ Len(auto_returns) = MaxTriggers
    /\ successful_reflections > 0
    /\ failed_reflections > 0
    /\ \E k \in 1..(Len(reflection_history) - 1) :
          reflection_history[k].call > reflection_history[k + 1].call

\* ------------------------------------------------- rollback over a file
\* this step replays the journal entry e, and a file is at its
\* original_path while its target_path exists
ReplaysOntoFile(e) ==
    /\ pc = "rollback"
    /\ j <= Len(rb)
    /\ e = rb[j]
    /\ j' = j + 1
    /\ Exists(fs, e.target_path)
    /\ Exists(fs, e.original_path)

\* C40: rollback_from_journal never overwrites an existing file: when a
\* file is at an entry's original_path at the moment the entry is replayed,
\* the file at target_path is not moved over it: both files stay where
\* they are.
C40_RollbackKeepsExistingFile ==
    [][\A e \in {rb[k] : k \in 1..Len(rb)} :
          ReplaysOntoFile(e) =>
              /\ fs'[e.original_path] = fs[e.original_path]
              /\ fs'[e.target_path] = fs[e.target_path]]_vars

TypeOK ==
    /\ fs \in [Paths -> FileContents \cup {NoFile}]
    /\ Len(tail) <= 1
    /\ \A p \in Paths : Exists(fs, p) => Parent(p) \in dirs
    /\ pc \in {"idle", "exec", "rollback"}
    /\ Len(journal) <= MaxWork
====
